---- MODULE Spec2Model ----
(***************************************************************************)
(* Model of offscreen: the display watcher (screen.go, Screen.Watch), the  *)
(* run command (cmds.go, RunCmd.Run) and the reconciler (cmds.go,          *)
(* ssChange) driving a Sony Bravia TV through the REST client (sony.go).   *)
(*                                                                         *)
(* The X server and the TV are the environment: the X server queues        *)
(* notifications on the connection, changes its output topology and may    *)
(* close the connection; the TV answers each protocol call (or fails it)   *)
(* and may change its power state or input on its own.                     *)
(***************************************************************************)
EXTENDS Integers, Sequences, FiniteSets, TLC

\* ------------------------------------------------------------------ bounds
\* Total number of notifications the X server delivers in one behaviour.
MaxEvents == 2

\* How many times in a row the handler is run in SpecReconcile.
MaxRuns == 2

\* How many RANDR outputs the screen has in SpecPresence.
MaxOutputs == 3

\* How many inputs the TV reports in getCurrentExternalInputsStatus.
MaxInputs == 2

\* The longest hostname of the machine, in bytes.
MaxHostname == 8

\* ------------------------------------------------------- program constants
\* screenFlags.ProductCode default (EDID product code of the managed TV).
ProductCode == 63747
\* screenFlags.Manufacturer default.
Manufacturer == "SNY"

\* A product code and a manufacturer id of some other monitor.
OtherCode == ProductCode - 1
OtherManufacturer == "DEL"

\* screensaver.State* values carried by screensaver.NotifyEvent / QueryInfo.
StateOff == "Off"
StateOn == "On"
StateCycle == "Cycle"
StateDisabled == "Disabled"
SSStates == {StateOff, StateOn, StateCycle, StateDisabled}

\* Input URIs of the TV (all start with the scheme prefix "extInput:").
InputURIs == {"extInput:hdmi?port=1", "extInput:hdmi?port=2"}
PowerStates == {"active", "standby"}

\* error values
Nil == "nil"
ErrWait == "could not wait for events"
ErrPresence == "could not query TV presence"
ErrPowerStatus == "could not get power status"
ErrSetPowerStatus == "could not set power status"
ErrSelectedInput == "could not get selected input"
ErrSetInput == "could not set input"
\* the error a RESTClient call returns (transport, status, protocol, decode)
ErrClient == "http: request failed"
HandlerErrors == {ErrPowerStatus, ErrSetPowerStatus, ErrSelectedInput, ErrSetInput}

VARIABLES
    ssOn,       \* Screen.ssOn: cached screen-saver flag
    present,    \* Screen.present: cached monitor-present flag
    outputs,    \* X server: the EDID property of each RANDR output, in order
    evq,        \* X connection: notifications queued for WaitForEvent
    produced,   \* X server: number of notifications delivered so far
    closed,     \* X connection closed (by the peer or by Screen.Close)
    pc,         \* RunCmd.Run / Watch position: "wait", "handler", "done", "exit"
    ret,        \* return value of Watch ("none" while it runs)
    runRet,     \* return value of RunCmd.Run ("none" while it runs)
    disp,       \* number of events Watch has read from the connection
    last,       \* what Watch did with the event it read last
    inv,        \* log of handler (SSChange) invocations
    ourInput,   \* RunCmd.Run: the target input URI
    rpc,        \* ssChange position: the protocol call it is about to make
    harg,       \* ssChange argument ssOn
    status,     \* ssChange local: fetched power status ("" before the fetch)
    input,      \* ssChange local: fetched selected input ("" before the fetch)
    calls,      \* protocol calls issued by the current / last ssChange run
    errs,       \* the error each of these calls returned (Nil for none)
    prev,       \* protocol calls issued by the ssChange run before this one
    tpc,        \* SonyCmdToggle.Run position ("idle": no toggle command runs)
    tcalls,     \* calls SonyCmdToggle.Run has made, each with what it returned
    tret,       \* return value of SonyCmdToggle.Run ("none" while it runs)
    tvPower,    \* TV: power state
    tvInput,    \* TV: selected input
    tvLabels,   \* TV: the label of each input ("" for none)
    cop,        \* RESTClient: the operation being called, its argument, the PSK
    creq,       \* RESTClient: the HTTP request built for it ("none" before)
    cresp,      \* what HTTPClient.Do got back for it ("none" before)
    cout,       \* what the operation returned to its caller ("none" before)
    cli         \* kong: command-line inputs and the values parsed from them

vars == <<ssOn, present, outputs, evq, produced, closed, pc, ret, runRet, disp,
          last, inv, ourInput, rpc, harg, status, input, calls, errs, tvPower,
          tvInput, tvLabels, tpc, tcalls, tret, prev, cop, creq, cresp, cout,
          cli>>

watchVars == <<ssOn, present, pc, ret, disp, last, inv>>
recVars == <<rpc, harg, status, input, calls, errs, prev>>
toggleVars == <<tpc, tcalls, tret>>
clientVars == <<cop, creq, cresp, cout>>
cfgVars == <<ourInput, clientVars, cli>>
tvVars == <<tvPower, tvInput, tvLabels>>
xVars == <<outputs, evq, produced, closed>>

\* --------------------------------------------------------- EDID / presence
\* The EDID property of an output: no property (empty data), data that does
\* not parse, data longer than the 256 bytes requested, or a parsed block
\* with its manufacturer id and product code.
EdidNone == [kind |-> "none", mfr |-> "", code |-> 0]
EdidBad == [kind |-> "bad", mfr |-> "", code |-> 0]
EdidLarge == [kind |-> "large", mfr |-> "", code |-> 0]
Edids == [kind : {"edid"}, mfr : {Manufacturer, OtherManufacturer},
          code : {ProductCode, OtherCode}]
Payloads == {EdidNone, EdidBad, EdidLarge} \cup Edids

EdidTarget == [kind |-> "edid", mfr |-> Manufacturer, code |-> ProductCode]
EdidOther == [kind |-> "edid", mfr |-> Manufacturer, code |-> OtherCode]

\* The output topologies the X server moves between while Watch runs: no
\* output, the TV alone, another monitor alone, another monitor and the TV,
\* an output without EDID and the TV, an output with unparsable EDID.
Topologies ==
    {<<>>, <<EdidTarget>>, <<EdidOther>>, <<EdidOther, EdidTarget>>,
     <<EdidNone, EdidTarget>>, <<EdidBad>>}

ErrGetScreens == "could not get screens"
ErrParseEDID == "could not parse EDID data"
ErrLargeEDID == "EDID data too large"

\* Mutant: the product code is not compared.
IsTargetAnyProduct(e) == e.mfr = Manufacturer

\* The callback queryPresence hands to RangeEDID: a match stops the ranging.
IsTarget(e) == e.mfr = Manufacturer /\ e.code = ProductCode

\* Mutant: an EDID property that does not parse is skipped.
RECURSIVE RangeEDIDSkipsBad(_)
RangeEDIDSkipsBad(outs) ==
    IF outs = <<>> THEN [present |-> FALSE, err |-> Nil]
    ELSE LET o == Head(outs)
         IN IF o.kind = "large"
            THEN [present |-> FALSE, err |-> ErrLargeEDID]
            ELSE IF o.kind \in {"none", "bad"} THEN RangeEDIDSkipsBad(Tail(outs))
            ELSE IF IsTarget(o) THEN [present |-> TRUE, err |-> Nil]
            ELSE RangeEDIDSkipsBad(Tail(outs))

\* RangeEDID with the queryPresence callback: [present, err].
RECURSIVE RangeEDID(_)
RangeEDID(outs) ==
    IF outs = <<>> THEN [present |-> FALSE, err |-> Nil]
    ELSE LET o == Head(outs)
         IN IF o.kind = "large"
            THEN [present |-> FALSE, err |-> ErrLargeEDID]
            ELSE IF o.kind = "none" THEN RangeEDID(Tail(outs))
            ELSE IF o.kind = "bad"
                 THEN [present |-> FALSE, err |-> ErrParseEDID]
                 ELSE IF IsTarget(o) THEN [present |-> TRUE, err |-> Nil]
                      ELSE RangeEDID(Tail(outs))

\* Screen.queryPresence: xfail is a failing X request (screen resources,
\* atom or output property reply).
queryPresence(outs, xfail) ==
    IF xfail THEN [present |-> FALSE, err |-> ErrGetScreens]
    ELSE RangeEDID(outs)

\* Screen.queryScreenSaver on a successful QueryInfo reply.
queryScreenSaver(state) == state = StateOn

\* Watch's decoding of a screensaver.NotifyEvent.
IsOn(state) == state = StateOn \/ state = StateCycle

\* ------------------------------------------------------------------- Init
\* A TV whose inputs carry no label.
NoLabels == [u \in InputURIs |-> ""]

\* The value of a client or command-line variable that is not in use.
None == [kind |-> "none"]

NoLast == [id |-> 0, kind |-> "none", val |-> FALSE, wasOn |-> FALSE,
           wasPresent |-> FALSE, fail |-> Nil]

\* Mutant: Watch is level-triggered at its start, it calls the handler with
\* the cached screen-saver value when the monitor is present.
InitLevelTriggered ==
    /\ outputs \in {t \in Topologies : RangeEDID(t).err = Nil}
    /\ present = RangeEDID(outputs).present
    /\ \E st \in SSStates : ssOn = queryScreenSaver(st)
    /\ evq = <<>>
    /\ produced = 0
    /\ closed = FALSE
    /\ pc = IF present THEN "handler" ELSE "wait"
    /\ ret = "none"
    /\ runRet = "none"
    /\ disp = 0
    /\ last = NoLast
    /\ inv = IF present
             THEN <<[ev |-> 0, arg |-> ssOn, res |-> "running", present |-> TRUE]>>
             ELSE <<>>
    /\ ourInput \in InputURIs
    /\ rpc = IF present THEN "PowerStatus" ELSE "idle"
    /\ harg = (present /\ ssOn)
    /\ status = ""
    /\ input = ""
    /\ calls = <<>>
    /\ errs = <<>>
    /\ prev = <<>>
    /\ tvPower \in PowerStates
    /\ tvInput \in InputURIs
    /\ tvLabels = NoLabels
    /\ tpc = "idle"
    /\ tcalls = <<>>
    /\ tret = "none"
    /\ cop = None
    /\ creq = None
    /\ cresp = None
    /\ cout = None
    /\ cli = None

Init ==
    /\ outputs \in {t \in Topologies : RangeEDID(t).err = Nil}
    /\ present = RangeEDID(outputs).present
    /\ \E st \in SSStates : ssOn = queryScreenSaver(st)
    /\ evq = <<>>
    /\ produced = 0
    /\ closed = FALSE
    /\ pc = "wait"
    /\ ret = "none"
    /\ runRet = "none"
    /\ disp = 0
    /\ last = NoLast
    /\ inv = <<>>
    /\ ourInput \in InputURIs
    /\ rpc = "idle"
    /\ harg = FALSE
    /\ status = ""
    /\ input = ""
    /\ calls = <<>>
    /\ errs = <<>>
    /\ prev = <<>>
    /\ tvPower \in PowerStates
    /\ tvInput \in InputURIs
    /\ tvLabels = NoLabels
    /\ tpc = "idle"
    /\ tcalls = <<>>
    /\ tret = "none"
    /\ cop = None
    /\ creq = None
    /\ cresp = None
    /\ cout = None
    /\ cli = None

\* ------------------------------------------------------------ environment
Event(k, st) == [id |-> produced + 1, kind |-> k, state |-> st]

CanDeliver == ~closed /\ produced < MaxEvents /\ pc \in {"wait", "handler"}

Deliver(e) ==
    /\ evq' = Append(evq, e)
    /\ produced' = produced + 1

\* The X server reports a screen-saver state change.
XScreenSaverNotify ==
    /\ CanDeliver
    /\ \E st \in SSStates : Deliver(Event("ss", st))
    /\ UNCHANGED <<outputs, closed, runRet, cfgVars>>
    /\ UNCHANGED <<watchVars, recVars, tvVars>>
    /\ UNCHANGED toggleVars

\* An output is connected, disconnected or reconfigured: the topology
\* changes (or not) and the X server reports a RANDR notification.
XOutputChange ==
    /\ CanDeliver
    /\ outputs' \in Topologies
    /\ Deliver(Event("randr", StateOff))
    /\ UNCHANGED <<closed, runRet, cfgVars>>
    /\ UNCHANGED <<watchVars, recVars, tvVars>>
    /\ UNCHANGED toggleVars

\* The X server sends an event of a type Watch's switch has no case for.
XOtherEvent ==
    /\ CanDeliver
    /\ Deliver(Event("other", StateOff))
    /\ UNCHANGED <<outputs, closed, runRet, cfgVars>>
    /\ UNCHANGED <<watchVars, recVars, tvVars>>
    /\ UNCHANGED toggleVars

\* The X server reports an error on the event stream.
XErrorEvent ==
    /\ CanDeliver
    /\ Deliver(Event("err", StateOff))
    /\ UNCHANGED <<outputs, closed, runRet, cfgVars>>
    /\ UNCHANGED <<watchVars, recVars, tvVars>>
    /\ UNCHANGED toggleVars

\* The connection is closed while Watch runs (by the peer or Screen.Close).
XClose ==
    /\ ~closed
    /\ pc \in {"wait", "handler"}
    /\ closed' = TRUE
    /\ UNCHANGED <<outputs, evq, produced, runRet, cfgVars>>
    /\ UNCHANGED <<watchVars, recVars, tvVars>>
    /\ UNCHANGED toggleVars

\* The TV changes state on its own (remote control, timer, another host).
TVChange ==
    /\ pc \in {"wait", "handler"}
    /\ tvPower' \in PowerStates
    /\ tvInput' \in InputURIs
    /\ <<tvPower', tvInput'>> /= <<tvPower, tvInput>>
    /\ UNCHANGED <<xVars, runRet, cfgVars, tvLabels>>
    /\ UNCHANGED <<watchVars, recVars>>
    /\ UNCHANGED toggleVars

\* ------------------------------------------------------------------ Watch
\* Mutant: events are dispatched without waiting for the handler to return.
WatchReadyConcurrent == pc \in {"wait", "handler"}

\* Watch is blocked in WaitForEvent (not inside the handler, not returned).
WatchReady == pc = "wait"

\* WaitForEvent hands out the queued events in arrival order.
NextEvent(q) == Head(q)

\* Mutant: the cached flag is left alone while the monitor is absent.
SwapSSOnlyIfPresent(isOn, wasOn, isPresent) == IF isPresent THEN isOn ELSE wasOn

\* screen.go:147 - the value s.ssOn.Swap(isOn) leaves in the cached flag.
SwapSS(isOn, wasOn, isPresent) == isOn

\* Mutant: the presence test is dropped.
NotifySSAnyPresence(isOn, wasOn, isPresent) == isOn /= wasOn

\* Mutant: level-triggered, every notification is passed on.
NotifySSEveryTime(isOn, wasOn, isPresent) == isPresent

\* screen.go:149 - the handler is called for a screen-saver notification.
NotifySS(isOn, wasOn, isPresent) == isOn /= wasOn /\ isPresent

\* Mutant: the test is inverted, the handler runs when the monitor goes.
NotifyDisappeared(isPresent, wasPresent) == ~isPresent /\ wasPresent

\* Mutant: the handler runs on every presence change.
NotifyPresenceChanged(isPresent, wasPresent) == isPresent /= wasPresent

\* screen.go:164 - the handler is called for a RANDR notification.
NotifyAppeared(isPresent, wasPresent) == isPresent /\ ~wasPresent

\* watcher.SSChange(arg) is entered: ssChange starts at its first call. The
\* log entry keeps the cached present flag as it is at the call.
SSChange(id, arg) ==
    /\ pc' = "handler"
    /\ inv' = Append(inv, [ev |-> id, arg |-> arg, res |-> "running",
                           present |-> present'])
    /\ rpc' = "PowerStatus"
    /\ harg' = arg
    /\ status' = ""
    /\ input' = ""
    /\ calls' = <<>>
    /\ errs' = <<>>
    /\ prev' = calls

\* The event is handled without a handler call: back to WaitForEvent.
NoSSChange ==
    /\ pc' = "wait"
    /\ UNCHANGED <<inv, recVars>>

\* Mutant: the closed connection is reported as an event-read failure.
WatchReturnClosedIsError(r) ==
    /\ pc' = "done"
    /\ ret' = IF r = Nil THEN ErrWait ELSE r

\* Mutant: the failure is dropped and the loop goes on.
WatchReturnGoesOn(r) ==
    /\ pc' = "wait"
    /\ ret' = ret

\* Watch returns r.
WatchReturn(r) ==
    /\ pc' = "done"
    /\ ret' = r

\* Whether a request to the X server fails: it may at any time, and it does
\* once the connection is closed.
XRequestFails == IF closed THEN {TRUE} ELSE BOOLEAN

\* case screensaver.NotifyEvent
WatchScreenSaver ==
    /\ WatchReady
    /\ evq /= <<>>
    /\ LET ev == NextEvent(evq)
           isOn == IsOn(ev.state)
           wasOn == ssOn
       IN /\ ev.kind = "ss"
          /\ ssOn' = SwapSS(isOn, wasOn, present)
          /\ present' = present
          /\ last' = [id |-> ev.id, kind |-> "ss", val |-> isOn, wasOn |-> wasOn,
                      wasPresent |-> present, fail |-> Nil]
          /\ IF NotifySS(isOn, wasOn, present)
             THEN SSChange(ev.id, isOn)
             ELSE NoSSChange
    /\ evq' = Tail(evq)
    /\ disp' = disp + 1
    /\ UNCHANGED <<ret, outputs, produced, closed, runRet, cfgVars, tvVars>>
    /\ UNCHANGED toggleVars

\* case randr.NotifyEvent
WatchOutputChange ==
    /\ WatchReady
    /\ evq /= <<>>
    /\ \E xfail \in XRequestFails :
         LET ev == NextEvent(evq)
             q == queryPresence(outputs, xfail)
             wasPresent == present
         IN /\ ev.kind = "randr"
            /\ last' = [id |-> ev.id, kind |-> "randr", val |-> q.present,
                        wasOn |-> ssOn, wasPresent |-> wasPresent,
                        fail |-> IF q.err = Nil THEN Nil ELSE ErrPresence]
            /\ IF q.err /= Nil
               THEN /\ WatchReturn(ErrPresence)
                    /\ UNCHANGED <<present, inv, recVars>>
               ELSE /\ present' = q.present
                    /\ ret' = ret
                    /\ IF NotifyAppeared(q.present, wasPresent)
                       THEN SSChange(ev.id, ssOn)
                       ELSE NoSSChange
    /\ evq' = Tail(evq)
    /\ disp' = disp + 1
    /\ UNCHANGED <<ssOn, outputs, produced, closed, runRet, cfgVars, tvVars>>
    /\ UNCHANGED toggleVars

\* an event of any other type: the switch does nothing
WatchOtherEvent ==
    /\ WatchReady
    /\ evq /= <<>>
    /\ LET ev == NextEvent(evq)
       IN /\ ev.kind = "other"
          /\ last' = [id |-> ev.id, kind |-> "other", val |-> FALSE, wasOn |-> ssOn,
                      wasPresent |-> present, fail |-> Nil]
    /\ evq' = Tail(evq)
    /\ disp' = disp + 1
    /\ UNCHANGED <<ssOn, present, pc, ret, inv, recVars>>
    /\ UNCHANGED <<outputs, produced, closed, runRet, cfgVars, tvVars>>
    /\ UNCHANGED toggleVars

\* WaitForEvent returns an error
WatchWaitError ==
    /\ WatchReady
    /\ evq /= <<>>
    /\ LET ev == NextEvent(evq)
       IN /\ ev.kind = "err"
          /\ last' = [id |-> ev.id, kind |-> "err", val |-> FALSE, wasOn |-> ssOn,
                      wasPresent |-> present, fail |-> ErrWait]
    /\ WatchReturn(ErrWait)
    /\ evq' = Tail(evq)
    /\ disp' = disp + 1
    /\ UNCHANGED <<ssOn, present, inv, recVars>>
    /\ UNCHANGED <<outputs, produced, closed, runRet, cfgVars, tvVars>>
    /\ UNCHANGED toggleVars

\* WaitForEvent returns nil, nil: the connection is closed and drained
WatchClosed ==
    /\ WatchReady
    /\ evq = <<>>
    /\ closed
    /\ WatchReturn(Nil)
    /\ last' = [id |-> 0, kind |-> "closed", val |-> FALSE, wasOn |-> ssOn,
                wasPresent |-> present, fail |-> Nil]
    /\ UNCHANGED <<ssOn, present, disp, inv, recVars>>
    /\ UNCHANGED <<xVars, runRet, cfgVars, tvVars>>
    /\ UNCHANGED toggleVars

\* RunCmd.Run returns what Watch returned; the deferred Close runs.
RunReturn ==
    /\ pc = "done"
    /\ pc' = "exit"
    /\ runRet' = ret
    /\ closed' = TRUE
    /\ UNCHANGED <<ssOn, present, ret, disp, last, inv, cfgVars>>
    /\ UNCHANGED <<outputs, evq, produced, recVars, tvVars>>
    /\ UNCHANGED toggleVars

\* --------------------------------------------------------------- ssChange
Call(op, arg) == [op |-> op, arg |-> arg]
CallPowerStatus == Call("PowerStatus", "")
CallSelectedInput == Call("SelectedInput", "")
CallSetPowerStatus(on) == Call("SetPowerStatus", IF on THEN "true" ELSE "false")
CallSetInput(uri) == Call("SetInput", uri)

\* Mutant: the TV is not turned on before its input is read.
AfterPowerStatusNoPowerOn(st, so) ==
    IF st = "standby" /\ so THEN "return"
    ELSE "SelectedInput"

\* Mutant: no early return, the input of a TV in standby is read.
AfterPowerStatusNoEarlyReturn(st, so) ==
    IF st = "standby" /\ ~so THEN "SetPowerOn"
    ELSE "SelectedInput"

\* Mutant: the TV is turned on whenever the screen saver is off.
AfterPowerStatusAlwaysOn(st, so) ==
    IF st = "standby" /\ so THEN "return"
    ELSE IF ~so THEN "SetPowerOn"
    ELSE "SelectedInput"

\* cmds.go:124-135 - what ssChange does once PowerStatus returned st.
AfterPowerStatus(st, so) ==
    IF st = "standby" /\ so THEN "return"
    ELSE IF st = "standby" /\ ~so THEN "SetPowerOn"
    ELSE "SelectedInput"

\* Mutant: the TV is turned off whatever input it shows.
AfterSelectedInputAnyInput(st, so, in, our) ==
    IF st = "standby" /\ ~so /\ in /= our THEN "SetInput"
    ELSE IF st = "active" /\ so THEN "SetPowerOff"
    ELSE "return"

\* Mutant: our input is selected also on a TV that was already on.
AfterSelectedInputAnyStatus(st, so, in, our) ==
    IF ~so /\ in /= our THEN "SetInput"
    ELSE IF st = "active" /\ so /\ in = our THEN "SetPowerOff"
    ELSE "return"

\* Mutant: the comparison with our input is inverted.
AfterSelectedInputForeign(st, so, in, our) ==
    IF st = "standby" /\ ~so /\ in /= our THEN "SetInput"
    ELSE IF st = "active" /\ so /\ in /= our THEN "SetPowerOff"
    ELSE "return"

\* cmds.go:146-163 - what ssChange does once SelectedInput returned in.
AfterSelectedInput(st, so, in, our) ==
    IF st = "standby" /\ ~so /\ in /= our THEN "SetInput"
    ELSE IF st = "active" /\ so /\ in = our THEN "SetPowerOff"
    ELSE "return"

\* Mutant: a handler error is dropped and the loop goes on.
HandlerReturnSwallow(r) ==
    /\ rpc' = "idle"
    /\ inv' = [inv EXCEPT ![Len(inv)].res = r]
    /\ pc' = "wait"
    /\ ret' = ret

\* ssChange returns r to Watch: nil goes back to WaitForEvent, an error
\* makes Watch return it (screen.go:150-152, 165-167).
HandlerReturn(r) ==
    /\ rpc' = "idle"
    /\ inv' = [inv EXCEPT ![Len(inv)].res = r]
    /\ IF r = Nil
       THEN pc' = "wait" /\ ret' = ret
       ELSE WatchReturn(r)

\* ssChange goes on to its next protocol call, or returns nil.
HandlerGoto(next) ==
    IF next = "return" THEN HandlerReturn(Nil)
    ELSE rpc' = next /\ UNCHANGED <<inv, pc, ret>>

\* c.PowerStatus()
PowerStatus ==
    /\ pc = "handler" /\ rpc = "PowerStatus"
    /\ calls' = Append(calls, CallPowerStatus)
    /\ \E ok \in BOOLEAN :
         IF ok
         THEN /\ errs' = Append(errs, Nil)
              /\ status' = tvPower
              /\ HandlerGoto(AfterPowerStatus(tvPower, harg))
         ELSE /\ errs' = Append(errs, ErrClient)
              /\ status' = status
              /\ HandlerReturn(ErrPowerStatus)
    /\ UNCHANGED <<ssOn, present, disp, last, harg, input>>
    /\ UNCHANGED <<xVars, runRet, cfgVars, tvVars>>
    /\ UNCHANGED <<toggleVars, prev>>

\* Mutant: ssChange goes on after a failed SetPowerStatus(true).
SetPowerOnIgnoresError ==
    /\ pc = "handler" /\ rpc = "SetPowerOn"
    /\ calls' = Append(calls, CallSetPowerStatus(TRUE))
    /\ \E ok \in BOOLEAN :
         /\ errs' = Append(errs, IF ok THEN Nil ELSE ErrClient)
         /\ tvPower' = IF ok THEN "active" ELSE tvPower
         /\ HandlerGoto("SelectedInput")
    /\ UNCHANGED <<ssOn, present, disp, last, harg, status, input>>
    /\ UNCHANGED <<xVars, runRet, cfgVars, tvInput, tvLabels>>
    /\ UNCHANGED <<toggleVars, prev>>

\* c.SetPowerStatus(true)
SetPowerOn ==
    /\ pc = "handler" /\ rpc = "SetPowerOn"
    /\ calls' = Append(calls, CallSetPowerStatus(TRUE))
    /\ \E ok \in BOOLEAN :
         IF ok
         THEN /\ errs' = Append(errs, Nil)
              /\ tvPower' = "active"
              /\ HandlerGoto("SelectedInput")
         ELSE /\ errs' = Append(errs, ErrClient)
              /\ tvPower' = tvPower
              /\ HandlerReturn(ErrSetPowerStatus)
    /\ UNCHANGED <<ssOn, present, disp, last, harg, status, input>>
    /\ UNCHANGED <<xVars, runRet, cfgVars, tvInput, tvLabels>>
    /\ UNCHANGED <<toggleVars, prev>>

\* c.SelectedInput(): the TV answers with an error while it is off.
SelectedInput ==
    /\ pc = "handler" /\ rpc = "SelectedInput"
    /\ calls' = Append(calls, CallSelectedInput)
    /\ \E ok \in BOOLEAN :
         IF ok /\ tvPower = "active"
         THEN /\ errs' = Append(errs, Nil)
              /\ input' = tvInput
              /\ HandlerGoto(AfterSelectedInput(status, harg, tvInput, ourInput))
         ELSE /\ errs' = Append(errs, ErrClient)
              /\ input' = input
              /\ HandlerReturn(ErrSelectedInput)
    /\ UNCHANGED <<ssOn, present, disp, last, harg, status>>
    /\ UNCHANGED <<xVars, runRet, cfgVars, tvVars>>
    /\ UNCHANGED <<toggleVars, prev>>

\* c.SetInput(ourInput)
SetInput ==
    /\ pc = "handler" /\ rpc = "SetInput"
    /\ calls' = Append(calls, CallSetInput(ourInput))
    /\ \E ok \in BOOLEAN :
         IF ok
         THEN /\ errs' = Append(errs, Nil)
              /\ tvInput' = ourInput
              /\ HandlerReturn(Nil)
         ELSE /\ errs' = Append(errs, ErrClient)
              /\ tvInput' = tvInput
              /\ HandlerReturn(ErrSetInput)
    /\ UNCHANGED <<ssOn, present, disp, last, harg, status, input>>
    /\ UNCHANGED <<xVars, runRet, cfgVars, tvPower, tvLabels>>
    /\ UNCHANGED <<toggleVars, prev>>

\* c.SetPowerStatus(false)
SetPowerOff ==
    /\ pc = "handler" /\ rpc = "SetPowerOff"
    /\ calls' = Append(calls, CallSetPowerStatus(FALSE))
    /\ \E ok \in BOOLEAN :
         IF ok
         THEN /\ errs' = Append(errs, Nil)
              /\ tvPower' = "standby"
              /\ HandlerReturn(Nil)
         ELSE /\ errs' = Append(errs, ErrClient)
              /\ tvPower' = tvPower
              /\ HandlerReturn(ErrSetPowerStatus)
    /\ UNCHANGED <<ssOn, present, disp, last, harg, status, input>>
    /\ UNCHANGED <<xVars, runRet, cfgVars, tvInput, tvLabels>>
    /\ UNCHANGED <<toggleVars, prev>>

\* ----------------------------------------------------------- specification
WatchStep ==
    \/ WatchScreenSaver
    \/ WatchOutputChange
    \/ WatchOtherEvent
    \/ WatchWaitError
    \/ WatchClosed

HandlerStep ==
    \/ PowerStatus
    \/ SetPowerOn
    \/ SelectedInput
    \/ SetInput
    \/ SetPowerOff

Next ==
    \/ XScreenSaverNotify
    \/ XOutputChange
    \/ XOtherEvent
    \/ XErrorEvent
    \/ XClose
    \/ TVChange
    \/ WatchScreenSaver
    \/ WatchOutputChange
    \/ WatchOtherEvent
    \/ WatchWaitError
    \/ WatchClosed
    \/ PowerStatus
    \/ SetPowerOn
    \/ SelectedInput
    \/ SetInput
    \/ SetPowerOff
    \/ RunReturn

Spec == Init /\ [][Next]_vars

\* ------------------------------------------------- ssChange run repeatedly
\* The handler is run MaxRuns times in a row with the same argument, as Watch
\* does when the monitor reappears while the screen saver keeps its state;
\* nobody else touches the TV in between.
InitReconcile == Init /\ present

Reconcile ==
    /\ pc = "wait"
    /\ Len(inv) < MaxRuns
    /\ present' = present
    /\ SSChange(Len(inv) + 1, ssOn)
    /\ UNCHANGED <<ssOn, disp, last, ret>>
    /\ UNCHANGED <<xVars, runRet, cfgVars, tvVars>>
    /\ UNCHANGED toggleVars

NextReconcile ==
    \/ Reconcile
    \/ PowerStatus
    \/ SetPowerOn
    \/ SelectedInput
    \/ SetInput
    \/ SetPowerOff

SpecReconcile == InitReconcile /\ [][NextReconcile]_vars

\* Watch is a running thread and every protocol call returns within the
\* HTTP client's timeout, so the watcher's own steps are taken eventually.
SpecLive == Spec /\ WF_vars(WatchStep) /\ WF_vars(HandlerStep)

\* ================================================================= claims
\* The handler invocations the event Watch read last has caused.
InvocationsOfLast == {i \in DOMAIN inv : inv[i].ev = last.id}

\* The invocation in progress or finished last.
LastInv == inv[Len(inv)]

\* C1: every handler (SSChange) invocation happens while the cached present
\* flag is true: the flag is true at each call and stays true while the
\* handler runs.
C1_HandlerOnlyWhenPresent ==
    /\ \A i \in DOMAIN inv : inv[i].present
    /\ pc = "handler" => present

C1_Witness ==
    /\ Len(inv) = 2
    /\ pc = "handler"
    /\ present

\* C2: a screen-saver notification read while the monitor is present invokes
\* the handler exactly once, with the new value, if the decoded value differs
\* from the cached one, and does not invoke it if the values are equal.
C2_ScreenSaverEdge ==
    (last.kind = "ss" /\ last.wasPresent) =>
        IF last.val /= last.wasOn
        THEN /\ Cardinality(InvocationsOfLast) = 1
             /\ \A i \in InvocationsOfLast : inv[i].arg = last.val
        ELSE InvocationsOfLast = {}

C2_Witness ==
    /\ last.kind = "ss" /\ last.wasPresent
    /\ last.id = 2
    /\ last.val /= last.wasOn
    /\ Len(inv) = 1
    /\ inv[1] = [ev |-> 2, arg |-> last.val, res |-> Nil, present |-> TRUE]

\* C3: a RANDR notification whose recomputed presence is true while the
\* cached presence was false invokes the handler exactly once, with the
\* screen-saver value cached at that moment.
C3_AppearedInvokesOnce ==
    (last.kind = "randr" /\ last.fail = Nil /\ last.val /\ ~last.wasPresent) =>
        /\ Cardinality(InvocationsOfLast) = 1
        /\ \A i \in InvocationsOfLast : inv[i].arg = last.wasOn

\* Replug as the second event, the screen saver on all along, and the only
\* invocation is the one of the replug, with value on.
C3_Witness ==
    /\ last.kind = "randr" /\ last.fail = Nil /\ last.val /\ ~last.wasPresent
    /\ last.id = 2
    /\ last.wasOn /\ ssOn
    /\ Len(inv) = 1
    /\ inv[1].ev = 2 /\ inv[1].arg = TRUE

\* C4: a RANDR notification that does not move presence from false to true
\* never invokes the handler; it stores the recomputed presence and leaves
\* the screen-saver flag alone.
C4_NoInvocationOtherwise ==
    (last.kind = "randr" /\ last.fail = Nil /\ ~(last.val /\ ~last.wasPresent)) =>
        /\ InvocationsOfLast = {}
        /\ present = last.val
        /\ ssOn = last.wasOn
        /\ pc /= "handler"

\* The monitor has just gone: true -> false.
C4_Witness ==
    /\ last.kind = "randr" /\ last.fail = Nil
    /\ last.wasPresent /\ ~last.val
    /\ ~present
    /\ inv = <<>>

\* C5: after a screen-saver notification the cached screen-saver flag is the
\* decoded value whether or not the monitor is present, the present flag is
\* unchanged, and with the monitor absent the handler is not called.
C5_CacheFollowsNotification ==
    last.kind = "ss" =>
        /\ ssOn = last.val
        /\ present = last.wasPresent
        /\ ~last.wasPresent => InvocationsOfLast = {}

\* Monitor absent, the value changed, the cache follows.
C5_Witness ==
    /\ last.kind = "ss"
    /\ ~last.wasPresent
    /\ last.val /= last.wasOn
    /\ ssOn = last.val
    /\ inv = <<>>

\* C6: when a handler invocation returns an error, Watch returns that error,
\* no event is read after the one that caused the invocation, no later
\* invocation happens, and RunCmd.Run returns that error.
C6_HandlerErrorIsFatal ==
    \A i \in DOMAIN inv :
        inv[i].res \in HandlerErrors =>
            /\ i = Len(inv)
            /\ pc \in {"done", "exit"}
            /\ ret = inv[i].res
            /\ disp = inv[i].ev
            /\ pc = "exit" => runRet = inv[i].res

\* The run ended with the handler's error while an event was still queued.
C6_Witness ==
    /\ pc = "exit"
    /\ inv /= <<>>
    /\ runRet \in HandlerErrors
    /\ runRet = LastInv.res
    /\ evq /= <<>>

\* The error, if any, that handling the event read last ended with: the
\* presence query's or event read's failure, or the handler's error.
FailureOfLast ==
    IF last.fail /= Nil THEN last.fail
    ELSE IF \E i \in InvocationsOfLast : inv[i].res \in HandlerErrors
         THEN LastInv.res
         ELSE Nil

\* C7 as stated: when the connection is closed while Watch is running, the
\* value Watch returns is nil.
C7_ClosedReturnsNil ==
    (pc = "done" /\ closed) => ret = Nil

\* C7, amended: once the connection is closed while Watch is running, Watch
\* eventually returns, and it returns nil unless handling an event it had
\* still to finish or to read failed, in which case it returns that error.
C7_ClosedEventuallyReturns ==
    closed ~> (pc \in {"done", "exit"} /\ ret = FailureOfLast)

\* Watch returned nil on the closed connection after an event was handled.
C7_Witness ==
    /\ pc = "done"
    /\ closed
    /\ ret = Nil
    /\ last.kind = "closed"
    /\ disp > 0
    /\ inv /= <<>>

\* C8: events are dispatched one at a time in arrival order. Watch reads an
\* event only after the handler invocation of the previous one has returned:
\* at most the newest invocation is running, no event is read while it runs,
\* events are read in the order of their arrival and the invocations follow
\* the order of their events.
C8_SerialDispatch ==
    /\ \A i \in DOMAIN inv : i < Len(inv) => inv[i].res /= "running"
    /\ pc = "handler" <=> (inv /= <<>> /\ LastInv.res = "running")
    /\ pc = "handler" => (disp = LastInv.ev /\ last.id = LastInv.ev)
    /\ last.kind \in {"ss", "randr", "other", "err"} => last.id = disp
    /\ \A k \in DOMAIN evq : evq[k].id = disp + k
    /\ \A i, j \in DOMAIN inv : i < j => inv[i].ev < inv[j].ev

\* The second event arrived while the handler of the first one was running
\* and is handled, by a second invocation, after the first one returned.
C8_Witness ==
    /\ Len(inv) = 2
    /\ inv[1].ev = 1 /\ inv[1].res = Nil
    /\ inv[2].ev = 2 /\ inv[2].res = "running"
    /\ Len(calls) = 2

\* C9: ssChange issues SetPowerStatus(false) if and only if the fetched power
\* state is active, screenSaverOn is true and the fetched input is the target
\* input; its calls are then PowerStatus, SelectedInput, SetPowerStatus(false).
IssuedPowerOff == \E i \in DOMAIN calls : calls[i] = CallSetPowerStatus(FALSE)

RunFinished == inv /= <<>> /\ rpc = "idle"

C9_PowerOffIff ==
    /\ IssuedPowerOff =>
          /\ status = "active" /\ harg /\ input = ourInput
          /\ calls = <<CallPowerStatus, CallSelectedInput, CallSetPowerStatus(FALSE)>>
    /\ (RunFinished /\ status = "active" /\ harg /\ input = ourInput) => IssuedPowerOff
    /\ rpc = "SetPowerOff" => (status = "active" /\ harg /\ input = ourInput)

C9_Witness ==
    /\ RunFinished
    /\ LastInv.res = Nil
    /\ calls = <<CallPowerStatus, CallSelectedInput, CallSetPowerStatus(FALSE)>>
    /\ tvPower = "standby"

\* C10: with the TV active on an input other than the target and
\* screenSaverOn true, ssChange calls PowerStatus and SelectedInput and
\* nothing else, and returns success: no SetPowerStatus, no SetInput.
C10_ForeignInputUntouched ==
    (inv /= <<>> /\ status = "active" /\ harg /\ input \in InputURIs \ {ourInput}) =>
        /\ calls = <<CallPowerStatus, CallSelectedInput>>
        /\ rpc = "idle"
        /\ LastInv.res = Nil

C10_Witness ==
    /\ RunFinished
    /\ status = "active" /\ harg /\ input \in InputURIs \ {ourInput}
    /\ LastInv.res = Nil
    /\ tvPower = "active" /\ tvInput = input

\* ------------------------------------------------- NewScreen: presence query
SeqsUpTo(S, n) == UNION {[1..k -> S] : k \in 0..n}

\* NewScreen has stored the screen-saver flag and is about to query the
\* presence of the monitor; the outputs carry any payloads, in any order.
InitPresence ==
    /\ outputs \in SeqsUpTo(Payloads, MaxOutputs)
    /\ present = FALSE
    /\ \E st \in SSStates : ssOn = queryScreenSaver(st)
    /\ evq = <<>>
    /\ produced = 0
    /\ closed = FALSE
    /\ pc = "new"
    /\ ret = "none"
    /\ runRet = "none"
    /\ disp = 0
    /\ last = NoLast
    /\ inv = <<>>
    /\ ourInput \in InputURIs
    /\ rpc = "idle"
    /\ harg = FALSE
    /\ status = ""
    /\ input = ""
    /\ calls = <<>>
    /\ errs = <<>>
    /\ prev = <<>>
    /\ tvPower \in PowerStates
    /\ tvInput \in InputURIs
    /\ tvLabels = NoLabels
    /\ tpc = "idle"
    /\ tcalls = <<>>
    /\ tret = "none"
    /\ cop = None
    /\ creq = None
    /\ cresp = None
    /\ cout = None
    /\ cli = None

\* present, err := s.queryPresence(): an error ends NewScreen and with it
\* the command, otherwise the flag is stored and the Screen is returned.
\* last keeps what queryPresence returned.
NewScreenQueryPresence ==
    /\ pc = "new"
    /\ \E xfail \in XRequestFails :
         LET q == queryPresence(outputs, xfail)
         IN /\ last' = [NoLast EXCEPT !.kind = "new", !.val = q.present,
                                      !.fail = q.err]
            /\ IF q.err = Nil
               THEN /\ present' = q.present
                    /\ pc' = "wait"
                    /\ runRet' = runRet
               ELSE /\ present' = present
                    /\ pc' = "exit"
                    /\ runRet' = ErrPresence
    /\ UNCHANGED <<ssOn, ret, disp, inv, cfgVars>>
    /\ UNCHANGED <<xVars, recVars, tvVars, toggleVars>>

NextPresence == NewScreenQueryPresence

SpecPresence == InitPresence /\ [][NextPresence]_vars

\* ------------------------------------------------------- SonyCmdToggle.Run
ErrGetLabels == "getting labels"
ErrBlank == "could not blank screen"

\* One call of the toggle command: what it returned (res) and its error.
TCall(op, arg, res, err) == [op |-> op, arg |-> arg, res |-> res, err |-> err]

\* Mutant: the TV is not asked which input it shows.
ToggleAfterPowerStatusBlind(st) ==
    IF st = "active" THEN "SetInput" ELSE "SetPowerOn"

\* cmds.go:280, 299 - what the toggle does once PowerStatus returned st.
ToggleAfterPowerStatus(st) ==
    IF st = "active" THEN "SelectedInput" ELSE "SetPowerOn"

\* Mutant: our input is selected even when the TV already shows it.
ToggleAfterSelectedInputAlwaysSet(in, our) == "SetInput"

\* cmds.go:287-296 - what the toggle does once SelectedInput returned in.
ToggleAfterSelectedInput(in, our) ==
    IF in = our THEN "Blank" ELSE "SetInput"

\* SonyCmdToggle.Run returns r.
ToggleReturn(r) ==
    /\ tpc' = "done"
    /\ tret' = r

\* The toggle command is started (a key press) while no other one runs.
ToggleStart ==
    /\ tpc = "idle"
    /\ tpc' = "getInputURI"
    /\ UNCHANGED <<tcalls, tret>>
    /\ UNCHANGED <<xVars, runRet, cfgVars, tvVars>>
    /\ UNCHANGED <<watchVars, recVars>>

\* getInputURI(c, sc.Input): a URI is taken as it is, a label is looked up
\* in c.Inputs(); the lookup fails or does not find the label.
ToggleGetInputURI ==
    /\ tpc = "getInputURI"
    /\ \E how \in {"uri", "label", "nolabel", "fail"} :
         CASE how = "uri" ->
                 /\ tcalls' = tcalls
                 /\ tpc' = "PowerStatus" /\ tret' = tret
           [] how = "label" ->
                 /\ tcalls' = Append(tcalls, TCall("Inputs", "", ourInput, Nil))
                 /\ tpc' = "PowerStatus" /\ tret' = tret
           [] how = "nolabel" ->
                 /\ tcalls' = Append(tcalls, TCall("Inputs", "", "", Nil))
                 /\ ToggleReturn(ErrGetLabels)
           [] how = "fail" ->
                 /\ tcalls' = Append(tcalls, TCall("Inputs", "", "", ErrClient))
                 /\ ToggleReturn(ErrGetLabels)
    /\ UNCHANGED <<xVars, runRet, cfgVars, tvVars>>
    /\ UNCHANGED <<watchVars, recVars>>

\* c.PowerStatus()
TogglePowerStatus ==
    /\ tpc = "PowerStatus"
    /\ \E ok \in BOOLEAN :
         IF ok
         THEN /\ tcalls' = Append(tcalls, TCall("PowerStatus", "", tvPower, Nil))
              /\ tpc' = ToggleAfterPowerStatus(tvPower) /\ tret' = tret
         ELSE /\ tcalls' = Append(tcalls, TCall("PowerStatus", "", "", ErrClient))
              /\ ToggleReturn(ErrPowerStatus)
    /\ UNCHANGED <<xVars, runRet, cfgVars, tvVars>>
    /\ UNCHANGED <<watchVars, recVars>>

\* c.SelectedInput(): the TV answers with an error while it is off.
ToggleSelectedInput ==
    /\ tpc = "SelectedInput"
    /\ \E ok \in BOOLEAN :
         IF ok /\ tvPower = "active"
         THEN /\ tcalls' = Append(tcalls, TCall("SelectedInput", "", tvInput, Nil))
              /\ tpc' = ToggleAfterSelectedInput(tvInput, ourInput)
              /\ tret' = tret
         ELSE /\ tcalls' = Append(tcalls, TCall("SelectedInput", "", "", ErrClient))
              /\ ToggleReturn(ErrSelectedInput)
    /\ UNCHANGED <<xVars, runRet, cfgVars, tvVars>>
    /\ UNCHANGED <<watchVars, recVars>>

\* sc.screen.Blank(): ForceScreenSaver(Active); the X server then notifies
\* the clients that selected screen-saver events.
ToggleBlank ==
    /\ tpc = "Blank"
    /\ \E ok \in BOOLEAN :
         IF ok
         THEN /\ tcalls' = Append(tcalls, TCall("Blank", "", "", Nil))
              /\ evq' = Append(evq, Event("ss", StateOn))
              /\ produced' = produced + 1
              /\ ToggleReturn(Nil)
         ELSE /\ tcalls' = Append(tcalls, TCall("Blank", "", "", ErrClient))
              /\ UNCHANGED <<evq, produced>>
              /\ ToggleReturn(ErrBlank)
    /\ UNCHANGED <<outputs, closed, runRet, cfgVars, tvVars>>
    /\ UNCHANGED <<watchVars, recVars>>

\* c.SetInput(ourInput), the last call on both paths that reach it.
ToggleSetInput ==
    /\ tpc = "SetInput"
    /\ \E ok \in BOOLEAN :
         IF ok
         THEN /\ tcalls' = Append(tcalls, TCall("SetInput", ourInput, "", Nil))
              /\ tvInput' = ourInput
              /\ ToggleReturn(Nil)
         ELSE /\ tcalls' = Append(tcalls, TCall("SetInput", ourInput, "", ErrClient))
              /\ tvInput' = tvInput
              /\ ToggleReturn(ErrSetInput)
    /\ UNCHANGED <<xVars, runRet, cfgVars, tvPower, tvLabels>>
    /\ UNCHANGED <<watchVars, recVars>>

\* c.SetPowerStatus(true)
ToggleSetPowerOn ==
    /\ tpc = "SetPowerOn"
    /\ \E ok \in BOOLEAN :
         IF ok
         THEN /\ tcalls' = Append(tcalls, TCall("SetPowerStatus", "true", "", Nil))
              /\ tvPower' = "active"
              /\ tpc' = "SetInput" /\ tret' = tret
         ELSE /\ tcalls' = Append(tcalls, TCall("SetPowerStatus", "true", "", ErrClient))
              /\ tvPower' = tvPower
              /\ ToggleReturn(ErrSetPowerStatus)
    /\ UNCHANGED <<xVars, runRet, cfgVars, tvInput, tvLabels>>
    /\ UNCHANGED <<watchVars, recVars>>

ToggleStep ==
    \/ ToggleGetInputURI
    \/ TogglePowerStatus
    \/ ToggleSelectedInput
    \/ ToggleBlank
    \/ ToggleSetInput
    \/ ToggleSetPowerOn

\* The toggle command on its own, with a TV that others may change.
NextToggle ==
    \/ ToggleStart
    \/ ToggleGetInputURI
    \/ TogglePowerStatus
    \/ ToggleSelectedInput
    \/ ToggleBlank
    \/ ToggleSetInput
    \/ ToggleSetPowerOn
    \/ TVChange

SpecToggle == Init /\ [][NextToggle]_vars

\* ------------------------------------------------------ ssChange, C11..C17
ColdStartCalls ==
    <<CallPowerStatus, CallSetPowerStatus(TRUE), CallSelectedInput,
      CallSetInput(ourInput)>>

IssuedSetInput == \E i \in DOMAIN calls : calls[i].op = "SetInput"

\* The error ssChange returns when the given call fails.
ErrOf(call) ==
    CASE call.op = "PowerStatus" -> ErrPowerStatus
      [] call.op = "SetPowerStatus" -> ErrSetPowerStatus
      [] call.op = "SelectedInput" -> ErrSelectedInput
      [] call.op = "SetInput" -> ErrSetInput

\* C11: with the TV found in standby, screenSaverOn false and, once powered
\* on, an input other than the target selected, ssChange calls PowerStatus,
\* SetPowerStatus(true), SelectedInput, SetInput(target), in that order.
C11_ColdStartSequence ==
    (inv /= <<>> /\ status = "standby" /\ ~harg /\ input \in InputURIs \ {ourInput}) =>
        IF rpc = "SetInput"
        THEN calls = SubSeq(ColdStartCalls, 1, 3)
        ELSE rpc = "idle" /\ calls = ColdStartCalls

C11_Witness ==
    /\ RunFinished
    /\ LastInv.res = Nil
    /\ status = "standby" /\ ~harg /\ input \in InputURIs \ {ourInput}
    /\ calls = ColdStartCalls
    /\ tvPower = "active" /\ tvInput = ourInput

\* C12: with the TV found in standby and screenSaverOn true, ssChange returns
\* success after the PowerStatus call alone: no SelectedInput, no mutation.
C12_StandbyAndSaverOnIsNoop ==
    (inv /= <<>> /\ status = "standby" /\ harg) =>
        /\ calls = <<CallPowerStatus>>
        /\ input = ""
        /\ rpc = "idle"
        /\ LastInv.res = Nil

C12_Witness ==
    /\ RunFinished
    /\ status = "standby" /\ harg
    /\ LastInv.res = Nil
    /\ tvPower = "standby"

\* C13: ssChange issues SetInput only when, in the same run, it found the TV
\* in standby with screenSaverOn false, powered it on, and then fetched an
\* input other than the target; the argument is the target input. The input
\* of a TV found active is never changed.
C13_SetInputOnlyAfterPowerOn ==
    /\ \A i \in DOMAIN calls :
          calls[i].op = "SetInput" =>
              /\ calls[i].arg = ourInput
              /\ status = "standby" /\ ~harg
              /\ input \in InputURIs \ {ourInput}
              /\ i = 4
              /\ calls[2] = CallSetPowerStatus(TRUE) /\ errs[2] = Nil
              /\ calls[3] = CallSelectedInput /\ errs[3] = Nil
    /\ rpc = "SetInput" => (status = "standby" /\ ~harg /\ input /= ourInput)

C13_Witness ==
    /\ IssuedSetInput
    /\ errs = <<Nil, Nil, Nil, Nil>>
    /\ tvInput = ourInput

\* C14 as stated: every ssChange run makes at least 1 and at most 3 protocol
\* calls.
C14_AtMostThreeCalls ==
    /\ Len(calls) <= 3
    /\ RunFinished => Len(calls) >= 1

\* C14, amended: every ssChange run makes at least 1 and at most 4 protocol
\* calls, and 4 exactly when it issues SetInput.
C14_AtMostFourCalls ==
    /\ Len(calls) <= 4
    /\ RunFinished => Len(calls) >= 1
    /\ Len(calls) = 4 <=> IssuedSetInput

C14_Witness ==
    /\ RunFinished
    /\ LastInv.res = Nil
    /\ Len(calls) = 4

IsMutation(call) == call.op \in {"SetPowerStatus", "SetInput"}

\* C15: idempotence. When ssChange is run again with the same argument and
\* target and nobody else changed the TV since the run before, it issues no
\* SetPowerStatus and no SetInput, whatever state the TV started in.
C15_SecondRunIssuesNoMutation ==
    Len(inv) >= 2 =>
        /\ \A i \in DOMAIN calls : ~IsMutation(calls[i])
        /\ rpc \in {"idle", "PowerStatus", "SelectedInput"}

\* The first run changed the TV, the second one completed without a change.
C15_Witness ==
    /\ Len(inv) = 2
    /\ RunFinished
    /\ LastInv.res = Nil
    /\ \E i \in DOMAIN prev : IsMutation(prev[i])
    /\ \A i \in DOMAIN calls : ~IsMutation(calls[i])

\* C16: when a protocol call of ssChange returns an error, that call is the
\* last one of the run and ssChange returns the non-nil error that wraps it;
\* nothing is called afterwards, so earlier mutations are not undone.
C16_ErrorEndsTheRun ==
    /\ Len(errs) = Len(calls)
    /\ \A k \in DOMAIN errs :
          errs[k] /= Nil =>
              /\ k = Len(calls)
              /\ rpc = "idle"
              /\ LastInv.res = ErrOf(calls[k])
              /\ LastInv.res /= Nil
    /\ (inv /= <<>> /\ LastInv.res \notin {Nil, "running"}) =>
          (calls /= <<>> /\ errs[Len(errs)] /= Nil)

\* The TV was powered on, reading its input failed, the TV stays on.
C16_Witness ==
    /\ RunFinished
    /\ calls = SubSeq(ColdStartCalls, 1, 3)
    /\ errs = <<Nil, Nil, ErrClient>>
    /\ LastInv.res = ErrSelectedInput
    /\ tvPower = "active"

\* C17: PowerStatus is the first call of every run, and SelectedInput and
\* SetInput are called only once the power is known to be on: PowerStatus
\* returned active, or SetPowerStatus(true) returned success before.
C17_InputOnlyWhenPowerOn ==
    /\ calls /= <<>> => calls[1] = CallPowerStatus
    /\ \A i \in DOMAIN calls :
          calls[i].op \in {"SelectedInput", "SetInput"} =>
              \/ status = "active"
              \/ \E j \in 1..(i - 1) :
                    calls[j] = CallSetPowerStatus(TRUE) /\ errs[j] = Nil

C17_Witness ==
    /\ status = "standby"
    /\ Len(calls) = 3
    /\ calls[3] = CallSelectedInput
    /\ errs = <<Nil, Nil, Nil>>

\* ------------------------------------------------------------ toggle, C18
\* What a successful call of the toggle returned, "" before that call.
ToggleFetched(op) ==
    LET S == {i \in DOMAIN tcalls : tcalls[i].op = op /\ tcalls[i].err = Nil}
    IN IF S = {} THEN "" ELSE tcalls[CHOOSE i \in S : TRUE].res

IsEffect(c) == c.op \in {"SetPowerStatus", "SetInput", "Blank"}

\* The mutations and the blanking the toggle has issued, in order.
ToggleEffects ==
    LET e == SelectSeq(tcalls, IsEffect)
    IN [i \in DOMAIN e |-> Call(e[i].op, e[i].arg)]

\* The row of the table for the fetched power status and selected input.
ToggleRow(st, in) ==
    IF st = "" THEN <<>>
    ELSE IF st = "active"
         THEN IF in = "" THEN <<>>
              ELSE IF in = ourInput THEN <<Call("Blank", "")>>
              ELSE <<CallSetInput(ourInput)>>
    ELSE <<CallSetPowerStatus(TRUE), CallSetInput(ourInput)>>

IsPrefix(a, b) == Len(a) <= Len(b) /\ a = SubSeq(b, 1, Len(a))

\* C18: the toggle follows the table and nothing else. TV active on the
\* target input: Blank, nothing sent to the TV; TV active on another input:
\* SetInput(target) only; TV in standby: SetPowerStatus(true), then
\* SetInput(target). It never sends SetPowerStatus(false).
C18_ToggleTable ==
    LET st == ToggleFetched("PowerStatus")
        in == ToggleFetched("SelectedInput")
        row == ToggleRow(st, in)
    IN /\ IsPrefix(ToggleEffects, row)
       /\ tret = Nil =>
             /\ ToggleEffects = row
             /\ row /= <<>>
             /\ \A i \in DOMAIN tcalls : tcalls[i].err = Nil
       /\ \A i \in DOMAIN tcalls :
             /\ Call(tcalls[i].op, tcalls[i].arg) /= CallSetPowerStatus(FALSE)
             /\ tcalls[i].op = "SelectedInput" => st = "active"

C18_Witness ==
    /\ tpc = "done" /\ tret = Nil
    /\ ToggleFetched("PowerStatus") = "active"
    /\ ToggleFetched("SelectedInput") = ourInput
    /\ ToggleEffects = <<Call("Blank", "")>>
    /\ evq /= <<>> /\ evq[Len(evq)].kind = "ss" /\ evq[Len(evq)].state = StateOn
    /\ tvPower = "active" /\ tvInput = ourInput

\* ------------------------------------------------- presence detection, C19..C20
Perms(s) == {[i \in DOMAIN s |-> s[f[i]]] : f \in Permutations(DOMAIN s)}

HasPayload(o) == o.kind /= "none"

Matches(o) == o.kind = "edid" /\ o.mfr = Manufacturer /\ o.code = ProductCode

\* Every output carries a match, a non-match or no payload.
Clean(outs) == \A i \in DOMAIN outs : outs[i].kind \in {"none", "edid"}

Queried == last.kind = "new" /\ last.fail /= ErrGetScreens

\* C19: for outputs that each carry a match, a non-match or no payload, in
\* any order, queryPresence returns no error and present = TRUE iff some
\* payload has both the configured manufacturer id and product code; every
\* enumeration order gives that result, and so does the list without the
\* outputs that have no payload.
C19_PresentIffMatch ==
    (Queried /\ Clean(outputs)) =>
        LET r == [present |-> \E i \in DOMAIN outputs : Matches(outputs[i]),
                  err |-> Nil]
        IN /\ last.fail = r.err /\ last.val = r.present
           /\ present = r.present
           /\ pc = "wait"
           /\ \A p \in Perms(outputs) : queryPresence(p, FALSE) = r
           /\ queryPresence(SelectSeq(outputs, HasPayload), FALSE) = r

C19_Witness ==
    /\ Queried
    /\ outputs = <<EdidNone, EdidOther, EdidTarget>>
    /\ present
    /\ last.fail = Nil

\* Output i is reached by the ranging: no output before it carries a match.
Reached(outs, i) == \A j \in 1..(i - 1) : ~Matches(outs[j])

\* C20 as stated: a payload that does not decode, on any output and in any
\* order, makes presence detection return an error.
C20_AnyBadPayloadIsAnError ==
    (Queried /\ \E i \in DOMAIN outputs : outputs[i].kind = "bad") =>
        last.fail /= Nil

\* C20, amended: a payload that does not decode makes presence detection
\* return an error when no output enumerated before it carries a match; the
\* ranging stops at the first match, so a bad payload behind a match is not
\* read and the result is present = TRUE without an error.
C20_BadPayloadBeforeMatchIsAnError ==
    Queried =>
        \A i \in DOMAIN outputs :
            outputs[i].kind = "bad" =>
                IF Reached(outputs, i)
                THEN /\ last.fail \in {ErrParseEDID, ErrLargeEDID}
                     /\ (\A j \in 1..(i - 1) : outputs[j].kind /= "large")
                            => last.fail = ErrParseEDID
                     /\ ~present /\ pc = "exit" /\ runRet = ErrPresence
                ELSE last.fail = Nil => (present /\ pc = "wait")

C20_Witness ==
    /\ Queried
    /\ outputs = <<EdidNone, EdidOther, EdidBad>>
    /\ last.fail = ErrParseEDID
    /\ pc = "exit"

\* ------------------------------------------------------------- RESTClient
Ops == {"PowerStatus", "SetPowerStatus", "SelectedInput", "Inputs", "SetInput"}
PSKs == {"", "1234"}

\* http.StatusOK, and two of the other status codes a TV may answer with.
StatusOK == 200
StatusForbidden == 403
StatusError == 500
StatusCodes == {StatusOK, StatusForbidden, StatusError}

\* The error values of sony.go. NoErr is Go's nil error.
NoErr == [kind |-> "nil"]
TransportError == [kind |-> "transport"]
HTTPStatusError(code) == [kind |-> "status", code |-> code]
SonyError(code, msg) == [kind |-> "sony", code |-> code, msg |-> msg]
InvalidResponseError(wrapped, body) ==
    [kind |-> "invalid", wrapped |-> wrapped, body |-> body]

\* fmt.Errorf("<prefix>: %w", e); errors.Is and errors.As see through it.
Wrap(prefix, e) == [kind |-> "wrapped", prefix |-> prefix, err |-> e]
Cause(e) == IF e.kind = "wrapped" THEN e.err ELSE e

\* JSON values of an error array.
JNum(n) == [t |-> "number", v |-> n]
JStr(x) == [t |-> "string", v |-> x]
ErrDisplayOff == <<JNum(40005), JStr("Display Is Turned Off")>>
ErrIllegalState == <<JNum(7), JStr("Illegal State")>>

\* The "error" field of a response body: absent, null, not an array, or an
\* array of JSON values (the pairs, and arrays of other sizes and types).
ErrorFields ==
    {[kind |-> k, elems |-> <<>>] : k \in {"absent", "null", "notarray"}}
    \cup {[kind |-> "array", elems |-> a] :
            a \in {ErrDisplayOff, ErrIllegalState, <<>>, <<JNum(7)>>,
                   <<JStr("7"), JStr("Illegal State")>>,
                   <<JNum(7), JNum(7)>>,
                   <<JNum(7), JStr("Illegal State"), JStr("more")>>}}

\* One input as getCurrentExternalInputsStatus reports it; the label is
\* empty for an input nobody labelled.
Labels == {"", "palantr", "other"}
InputEntries == [uri : InputURIs, label : Labels]

\* The values the "result" array of an operation's response can hold.
ResultValues(op) ==
    CASE op = "PowerStatus" -> [status : PowerStates]
      [] op = "SelectedInput" -> [uri : InputURIs]
      [] op = "Inputs" -> SeqsUpTo(InputEntries, MaxInputs)
      [] OTHER -> {[empty |-> TRUE]}

\* The "result" field of a response body: absent, null, of a JSON type that
\* does not fit []T, or an array of no or one value of type T.
ResultFields(op) ==
    {[kind |-> k, elems |-> <<>>] : k \in {"absent", "null", "wrong", "array"}}
    \cup {[kind |-> "array", elems |-> <<v>>] : v \in ResultValues(op)}

\* Response bodies: text that is not JSON, or a JSON object.
NotJSON == [json |-> FALSE, result |-> [kind |-> "absent", elems |-> <<>>],
            error |-> [kind |-> "absent", elems |-> <<>>]]
Bodies(op) ==
    {NotJSON} \cup [json : {TRUE}, result : ResultFields(op), error : ErrorFields]

\* What HTTPClient.Do yields: a transport failure or a response.
NoBody == [json |-> FALSE, result |-> [kind |-> "none", elems |-> <<>>],
           error |-> [kind |-> "none", elems |-> <<>>]]
TransportFailure == [kind |-> "fail", code |-> 0, body |-> NoBody]
Responses(op) ==
    {TransportFailure}
    \cup [kind : {"http"}, code : StatusCodes, body : Bodies(op)]

\* The protocol service and method of each operation (sony.go:161-214).
Service(op) ==
    IF op \in {"PowerStatus", "SetPowerStatus"} THEN "system" ELSE "avContent"

Method(op) ==
    CASE op = "PowerStatus" -> "getPowerStatus"
      [] op = "SetPowerStatus" -> "setPowerStatus"
      [] op = "SelectedInput" -> "getPlayingContentInfo"
      [] op = "Inputs" -> "getCurrentExternalInputsStatus"
      [] op = "SetInput" -> "setPlayContent"

\* The params argument of post: nil for the queries.
Params(op, arg) ==
    CASE op = "SetPowerStatus" -> <<[status |-> arg]>>
      [] op = "SetInput" -> <<[uri |-> arg]>>
      [] OTHER -> <<>>

\* Mutant: the PSK header is added whatever the key is.
AuthHeaderAlways(psk) == {<<"X-Auth-PSK", psk>>}

\* newRequest: the header is added for a non-empty key only.
AuthHeader(psk) == IF psk /= "" THEN {<<"X-Auth-PSK", psk>>} ELSE {}

\* RESTClient.newRequest: POST <BaseURL>/<service> with the JSON payload.
newRequest(op, arg, psk) ==
    [httpMethod |-> "POST",
     path |-> <<"sony", Service(op)>>,
     method |-> Method(op),
     version |-> "1.0",
     id |-> 1,
     params |-> Params(op, arg),
     header |-> AuthHeader(psk)]

\* Mutant: any two-element error array is taken as code and message.
NewSonyErrorUntyped(resp, body) ==
    IF Len(resp) /= 2
    THEN InvalidResponseError("wrong number of error parameters", body)
    ELSE SonyError(resp[1].v, resp[2].v)

\* NewSonyError(resp, body)
NewSonyError(resp, body) ==
    IF Len(resp) /= 2
    THEN InvalidResponseError("wrong number of error parameters", body)
    ELSE IF resp[1].t /= "number"
         THEN InvalidResponseError("first parameter is not a number", body)
         ELSE IF resp[2].t /= "string"
              THEN InvalidResponseError("second parameter is not a string", body)
              ELSE SonyError(resp[1].v, resp[2].v)

\* json.Unmarshal(body, &bresp) fails: the text is not JSON, or a field
\* holds a JSON value that does not fit its Go type ([]T, []any).
UnmarshalFails(body) ==
    \/ ~body.json
    \/ body.result.kind = "wrong"
    \/ body.error.kind = "notarray"

\* Mutant: a result in the body is returned although an error came with it.
decodeRespResultFirst(body) ==
    IF UnmarshalFails(body)
    THEN [result |-> <<>>, err |-> InvalidResponseError("unmarshal", body)]
    ELSE IF body.result.kind = "array" /\ body.result.elems /= <<>>
         THEN [result |-> body.result.elems, err |-> NoErr]
         ELSE IF body.error.kind = "array"
              THEN [result |-> <<>>, err |-> NewSonyError(body.error.elems, body)]
              ELSE [result |-> <<>>, err |-> NoErr]

\* decodeResp[T]: [result, err]. A null or absent field decodes to nil.
decodeResp(body) ==
    IF UnmarshalFails(body)
    THEN [result |-> <<>>, err |-> InvalidResponseError("unmarshal", body)]
    ELSE IF body.error.kind = "array"
         THEN [result |-> <<>>, err |-> NewSonyError(body.error.elems, body)]
         ELSE [result |-> IF body.result.kind = "array"
                          THEN body.result.elems ELSE <<>>,
               err |-> NoErr]

\* Mutant: the status code of the response is not looked at.
doAnyStatus(resp) ==
    IF resp.kind = "fail" THEN [ok |-> FALSE, err |-> TransportError]
    ELSE [ok |-> TRUE, err |-> NoErr]

\* RESTClient.do: [ok, err]; a response other than 200 is closed unread.
do(resp) ==
    IF resp.kind = "fail" THEN [ok |-> FALSE, err |-> TransportError]
    ELSE IF resp.code /= StatusOK
         THEN [ok |-> FALSE, err |-> HTTPStatusError(resp.code)]
         ELSE [ok |-> TRUE, err |-> NoErr]

\* post[T] after newRequest: [isNil, val, err]; isNil is the nil *T.
NilResult(e) == [isNil |-> TRUE, val |-> <<>>, err |-> e]

post(resp) ==
    LET d == do(resp)
    IN IF d.err /= NoErr THEN NilResult(Wrap("http", d.err))
       ELSE LET bresp == decodeResp(resp.body)
            IN IF bresp.err /= NoErr THEN NilResult(Wrap("decode", bresp.err))
               ELSE IF Len(bresp.result) = 0 THEN NilResult(NoErr)
               ELSE [isNil |-> FALSE, val |-> bresp.result[1], err |-> NoErr]

\* What an operation hands to its caller: a value with a nil error, an
\* error, or a run-time panic.
Ok(v) == [kind |-> "ok", val |-> <<v>>, err |-> NoErr]
Err(e) == [kind |-> "err", val |-> <<>>, err |-> e]
Panic == [kind |-> "panic", val |-> <<>>, err |-> NoErr]

Put(m, k, v) == [x \in DOMAIN m \cup {k} |-> IF x = k THEN v ELSE m[x]]
EmptyMap == [x \in {} |-> ""]

\* The loop of Inputs over the reported inputs (sony.go:203-207).
RECURSIVE InputsMap(_, _)
InputsMap(inputs, result) ==
    IF inputs = <<>> THEN result
    ELSE LET in == Head(inputs)
         IN InputsMap(Tail(inputs),
                      Put(Put(result, in.uri, in.label), in.label, in.uri))

\* PowerStatus, SelectedInput and Inputs read through the pointer post
\* returned; SetPowerStatus and SetInput drop it.
Operation(op, resp) ==
    LET p == post(resp)
    IN IF p.err /= NoErr THEN Err(p.err)
       ELSE IF op \in {"SetPowerStatus", "SetInput"} THEN Ok("")
       ELSE IF p.isNil THEN Panic
       ELSE CASE op = "PowerStatus" -> Ok(p.val.status)
              [] op = "SelectedInput" -> Ok(p.val.uri)
              [] op = "Inputs" -> Ok(InputsMap(p.val, EmptyMap))

\* The arguments an operation is called with.
OpArgs(op) ==
    CASE op = "SetPowerStatus" -> BOOLEAN
      [] op = "SetInput" -> InputURIs
      [] OTHER -> {""}

\* ----------------------------------------- one call of a RESTClient method
ClientNewRequest ==
    /\ cop /= None /\ creq = None
    /\ creq' = newRequest(cop.op, cop.arg, cop.psk)
    /\ UNCHANGED <<cop, cresp, cout, cli, ourInput>>
    /\ UNCHANGED <<xVars, watchVars, recVars, toggleVars, tvVars, runRet>>

\* c.HTTPClient.Do(req): the TV answers, or the exchange fails.
ClientDo ==
    /\ creq /= None /\ cresp = None
    /\ cresp' \in Responses(cop.op)
    /\ UNCHANGED <<cop, creq, cout, cli, ourInput>>
    /\ UNCHANGED <<xVars, watchVars, recVars, toggleVars, tvVars, runRet>>

\* The status check, the decoding and the method's own use of the result.
ClientReturn ==
    /\ cresp /= None /\ cout = None
    /\ cout' = Operation(cop.op, cresp)
    /\ UNCHANGED <<cop, creq, cresp, cli, ourInput>>
    /\ UNCHANGED <<xVars, watchVars, recVars, toggleVars, tvVars, runRet>>

\* No Screen and no watcher: only the client runs.
NoWatcher ==
    /\ outputs = <<>>
    /\ present = FALSE
    /\ ssOn = FALSE
    /\ evq = <<>>
    /\ produced = 0
    /\ closed = FALSE
    /\ pc = "none"
    /\ ret = "none"
    /\ runRet = "none"
    /\ disp = 0
    /\ last = NoLast
    /\ inv = <<>>
    /\ ourInput = ""
    /\ rpc = "idle"
    /\ harg = FALSE
    /\ status = ""
    /\ input = ""
    /\ calls = <<>>
    /\ errs = <<>>
    /\ prev = <<>>
    /\ tvPower = "standby"
    /\ tvInput = "extInput:hdmi?port=1"
    /\ tvLabels = NoLabels
    /\ tpc = "idle"
    /\ tcalls = <<>>
    /\ tret = "none"

InitClient ==
    /\ NoWatcher
    /\ \E op \in Ops, psk \in PSKs :
         \E arg \in OpArgs(op) : cop = [op |-> op, arg |-> arg, psk |-> psk]
    /\ creq = None
    /\ cresp = None
    /\ cout = None
    /\ cli = None

NextClient ==
    \/ ClientNewRequest
    \/ ClientDo
    \/ ClientReturn

SpecClient == InitClient /\ [][NextClient]_vars

\* ------------------------------------------------------ RESTClient, C21..C25
Returned == cout /= None

\* A 200 response reached the decoder.
Decoded == Returned /\ cresp.kind = "http" /\ cresp.code = StatusOK

\* The error field is an array [number, string].
IsPair(e) ==
    /\ e.kind = "array"
    /\ Len(e.elems) = 2
    /\ e.elems[1].t = "number"
    /\ e.elems[2].t = "string"

\* C21: a response with a status code other than 200 makes every operation
\* return a status error carrying that code; the body is not decoded, so the
\* outcome is the same whatever the body is, and never a result, a protocol
\* error or a malformed-response error.
C21_NonOKIsStatusError ==
    (Returned /\ cresp.kind = "http" /\ cresp.code /= StatusOK) =>
        /\ cout.kind = "err"
        /\ Cause(cout.err) = HTTPStatusError(cresp.code)
        /\ \A b \in Bodies(cop.op) :
              Operation(cop.op, [cresp EXCEPT !.body = b]) = cout

\* The body alone would have been a protocol error.
C21_Witness ==
    /\ Returned
    /\ cresp.kind = "http" /\ cresp.code = StatusForbidden
    /\ cresp.body.json /\ cresp.body.error.elems = ErrDisplayOff
    /\ Cause(cout.err) = HTTPStatusError(StatusForbidden)

\* C22 as stated: a 200 response whose JSON body holds an error pair makes
\* the call return a protocol error with that code and message and no
\* result, whatever result field comes with it.
C22_ErrorPairIsSonyError ==
    (Decoded /\ cresp.body.json /\ IsPair(cresp.body.error)) =>
        /\ cout.kind = "err"
        /\ Cause(cout.err) = SonyError(cresp.body.error.elems[1].v,
                                       cresp.body.error.elems[2].v)

\* C22, amended: the protocol error is returned when the result field is
\* absent, null or of the operation's result type; with a result field of
\* another JSON type the body does not unmarshal and the call returns a
\* malformed-response error.
C22_ErrorPairAndDecodableResult ==
    (Decoded /\ cresp.body.json /\ IsPair(cresp.body.error)) =>
        /\ cout.kind = "err"
        /\ cout.val = <<>>
        /\ IF cresp.body.result.kind = "wrong"
           THEN Cause(cout.err).kind = "invalid"
           ELSE Cause(cout.err) = SonyError(cresp.body.error.elems[1].v,
                                            cresp.body.error.elems[2].v)

C22_Witness ==
    /\ Decoded
    /\ cresp.body.error.elems = ErrDisplayOff
    /\ cresp.body.result.kind = "array" /\ cresp.body.result.elems /= <<>>
    /\ cout.kind = "err"
    /\ Cause(cout.err).kind = "sony" /\ Cause(cout.err).code = 40005

\* C23: a 200 response whose JSON body has neither a result nor an error
\* makes each of the five operations complete normally, without an error.
C23_NoResultIsNoError ==
    (Decoded /\ cresp.body.json
        /\ cresp.body.result.kind = "absent"
        /\ cresp.body.error.kind = "absent") =>
        cout.kind = "ok"

DistinctInputs(l) ==
    \A i, j \in DOMAIN l :
        i /= j => (l[i].uri /= l[j].uri /\ l[i].label /= l[j].label)

\* C25: the map Inputs returns maps every input's URI to its label and the
\* label to the URI for the inputs that have a label; an input with an
\* empty label adds no entry under the empty key.
C25_NoEntryForEmptyLabel ==
    (Decoded /\ cop.op = "Inputs" /\ cout.kind = "ok") =>
        LET l == cresp.body.result.elems[1]
            m == cout.val[1]
        IN DistinctInputs(l) =>
              /\ "" \notin DOMAIN m
              /\ \A i \in DOMAIN l :
                    /\ m[l[i].uri] = l[i].label
                    /\ l[i].label /= "" => m[l[i].label] = l[i].uri

\* C29: a request carries the X-Auth-PSK header, with the configured key, iff
\* that key is not empty; PowerStatus and SetPowerStatus are posted to the
\* system service, SelectedInput, Inputs and SetInput to avContent.
C29_HeaderAndService ==
    creq /= None =>
        /\ creq.header = IF cop.psk = "" THEN {} ELSE {<<"X-Auth-PSK", cop.psk>>}
        /\ creq.httpMethod = "POST"
        /\ cop.op \in {"PowerStatus", "SetPowerStatus"}
              => creq.path = <<"sony", "system">>
        /\ cop.op \in {"SelectedInput", "Inputs", "SetInput"}
              => creq.path = <<"sony", "avContent">>

C29_Witness ==
    /\ creq /= None
    /\ cop.psk = "" /\ creq.header = {}
    /\ cop.op = "SetInput" /\ creq.path = <<"sony", "avContent">>

\* ------------------------------------------------------------ getInputURI
ErrGetInputs == "could not get available inputs"
ErrNoLabel == "tv set does not have labelled input"

\* The strings of the model that start with "extInput:".
ExtInputStrings == InputURIs \cup {"extInput:component"}

\* What --input may hold: a URI of the TV or another one, a label.
InputArgs == ExtInputStrings \cup Labels \cup {"nolabel"}

\* Mutant: a URI is looked up in the TV's input list like a label.
HasExtInputPrefixNever(label) == FALSE

\* strings.HasPrefix(label, "extInput:")
HasExtInputPrefix(label) == label \in ExtInputStrings

\* getInputURI is about to return: cli.uri and cli.err are its values,
\* cli.panic a run-time panic that unwinds through it.
GetInputURIDone(uri, err, panic) ==
    cli' = [cli EXCEPT !.pc = "done", !.uri = uri, !.err = err, !.panic = panic]

\* getInputURI(c, label) up to its call of c.Inputs().
GetInputURI ==
    /\ cli /= None /\ cli.pc = "getInputURI"
    /\ IF HasExtInputPrefix(cli.input)
       THEN /\ GetInputURIDone(cli.input, Nil, FALSE)
            /\ cop' = cop
       ELSE /\ cli' = [cli EXCEPT !.pc = "Inputs"]
            /\ cop' = [op |-> "Inputs", arg |-> "", psk |-> cli.psk]
    /\ UNCHANGED <<creq, cresp, cout, ourInput>>
    /\ UNCHANGED <<xVars, watchVars, recVars, toggleVars, tvVars, runRet>>

\* c.Inputs() has returned: the lookup of the label in the map.
GetInputURILookup ==
    /\ cli /= None /\ cli.pc = "Inputs"
    /\ cout /= None
    /\ IF cout.kind = "panic" THEN GetInputURIDone("", Nil, TRUE)
       ELSE IF cout.kind = "err" THEN GetInputURIDone("", ErrGetInputs, FALSE)
       ELSE LET labels == cout.val[1]
            IN IF cli.input \in DOMAIN labels
               THEN GetInputURIDone(labels[cli.input], Nil, FALSE)
               ELSE GetInputURIDone("", ErrNoLabel, FALSE)
    /\ UNCHANGED <<clientVars, ourInput>>
    /\ UNCHANGED <<xVars, watchVars, recVars, toggleVars, tvVars, runRet>>

InitResolve ==
    /\ NoWatcher
    /\ cop = None
    /\ creq = None
    /\ cresp = None
    /\ cout = None
    /\ \E a \in InputArgs, psk \in PSKs :
         cli = [kind |-> "getInputURI", pc |-> "getInputURI", input |-> a,
                psk |-> psk, uri |-> "", err |-> Nil, panic |-> FALSE]

NextResolve ==
    \/ GetInputURI
    \/ ClientNewRequest
    \/ ClientDo
    \/ ClientReturn
    \/ GetInputURILookup

SpecResolve == InitResolve /\ [][NextResolve]_vars

\* -------------------------------------------------------- getInputURI, C26
\* The inputs the TV reported, <<>> when the call did not yield a list.
ReportedInputs ==
    IF Decoded /\ cout.kind = "ok" THEN cresp.body.result.elems[1] ELSE <<>>

\* C26: getInputURI returns an argument that starts with "extInput:" as it
\* is, without a request to the TV; any other argument gives the URI of the
\* TV input that carries it as its label, and an error without a URI when
\* no input carries that label or the input list cannot be fetched.
C26_ResolveLabelOrURI ==
    (cli /= None /\ cli.pc = "done") =>
        IF HasExtInputPrefix(cli.input)
        THEN cli.uri = cli.input /\ cli.err = Nil /\ creq = None /\ ~cli.panic
        ELSE LET l == ReportedInputs
                 C == {i \in DOMAIN l : l[i].label = cli.input /\ l[i].label /= ""}
             IN /\ ~cli.panic
                /\ IF C /= {}
                   THEN cli.err = Nil /\ \E i \in C : cli.uri = l[i].uri
                   ELSE cli.err /= Nil /\ cli.uri = ""

\* ----------------------------------------------- hostname and PSK settings
\* A flag on the command line and a variable of the environment.
NoFlag == [given |-> FALSE, val |-> ""]
Flag(v) == [given |-> TRUE, val |-> v]
NoEnv == [set |-> FALSE, val |-> ""]
Env(v) == [set |-> TRUE, val |-> v]

SettingValues == {"example.com", "example2.com"}
Flags == {NoFlag} \cup {Flag(v) : v \in SettingValues \cup {""}}
Envs == {NoEnv} \cup {Env(v) : v \in SettingValues \cup {""}}
Builds == SettingValues \cup {""}

\* Mutant: the environment wins over the command line.
FlagOrEnvEnvFirst(flag, env, default) ==
    IF env.set /\ env.val /= "" THEN env.val
    ELSE IF flag.given THEN flag.val
    ELSE default

\* A kong flag with an env tag (braviaAPI.Hostname, braviaAPI.PSK): the
\* flag of the command line, else the variable of the environment unless it
\* is empty, else the default of the flag.
FlagOrEnv(flag, env, default) ==
    IF flag.given THEN flag.val
    ELSE IF env.set /\ env.val /= "" THEN env.val
    ELSE default

\* The default of the two flags is the value compiled in at build time
\* (buildtimeHost, buildtimePSK), empty when the build set none.
EffectiveSetting(flag, env, build) == FlagOrEnv(flag, env, build)

\* The rows of buildtimeVarTests: build, env and cli value, wanted value.
\* The test sets the variable of the environment in every row and passes the
\* flag only when its value is not empty.
buildtimeVarTests ==
    <<[build |-> "", env |-> "", cli |-> "", want |-> ""],
      [build |-> "example.com", env |-> "", cli |-> "", want |-> "example.com"],
      [build |-> "", env |-> "example.com", cli |-> "", want |-> "example.com"],
      [build |-> "", env |-> "", cli |-> "example.com", want |-> "example.com"],
      [build |-> "example.com", env |-> "example2.com", cli |-> "",
       want |-> "example2.com"],
      [build |-> "example.com", env |-> "", cli |-> "example2.com",
       want |-> "example2.com"]>>

TestBuildtimeVars ==
    \A i \in DOMAIN buildtimeVarTests :
        LET tt == buildtimeVarTests[i]
        IN EffectiveSetting(IF tt.cli /= "" THEN Flag(tt.cli) ELSE NoFlag,
                            Env(tt.env), tt.build) = tt.want

\* kong parses the command line of a command that embeds braviaAPI.
ParseSettings ==
    /\ cli /= None /\ cli.pc = "parse"
    /\ cli' = [cli EXCEPT
                 !.pc = "parsed",
                 !.Hostname = EffectiveSetting(cli.hostFlag, cli.hostEnv,
                                               cli.hostBuild),
                 !.PSK = EffectiveSetting(cli.pskFlag, cli.pskEnv, cli.pskBuild)]
    /\ UNCHANGED <<clientVars, ourInput>>
    /\ UNCHANGED <<xVars, watchVars, recVars, toggleVars, tvVars, runRet>>

InitSettings ==
    /\ NoWatcher
    /\ cop = None
    /\ creq = None
    /\ cresp = None
    /\ cout = None
    /\ \E hf \in Flags, he \in Envs, hb \in Builds :
         \E pf \in Flags, pe \in Envs, pb \in Builds :
            cli = [kind |-> "settings", pc |-> "parse",
                   hostFlag |-> hf, hostEnv |-> he, hostBuild |-> hb,
                   pskFlag |-> pf, pskEnv |-> pe, pskBuild |-> pb,
                   Hostname |-> "", PSK |-> ""]

NextSettings == ParseSettings

SpecSettings == InitSettings /\ [][NextSettings]_vars

\* ------------------------------------------------------------ settings, C27
\* The value the precedence of C27 gives.
ByPrecedence(v, flag, env, build) ==
    /\ flag.given => v = flag.val
    /\ (~flag.given /\ env.set /\ env.val /= "") => v = env.val
    /\ (~flag.given /\ ~(env.set /\ env.val /= "")) => v = build

LabelMax == 7
LabelHead == 6

\* Strings are sequences of bytes here. Hostnames: every string of up to
\* MaxHostname bytes over two letters, and the example of the comment.
Palantir == <<"p", "a", "l", "a", "n", "t", "i", "r">>
Palantr == <<"p", "a", "l", "a", "n", "t", "r">>
Hostnames == SeqsUpTo({"a", "b"}, MaxHostname) \cup {Palantir}

\* Values given with --input: a short label, and one longer than a label.
LongLabel == <<"l", "i", "v", "i", "n", "g", "r", "o", "o", "m">>
NoInputFlag == [given |-> FALSE, val |-> <<>>]
InputFlags == {NoInputFlag, Flag(<<"t", "v">>), Flag(LongLabel)}

\* Mutant: the first seven bytes are kept.
TruncateHostnameHead(hostname) ==
    IF Len(hostname) > LabelMax THEN SubSeq(hostname, 1, LabelMax)
    ELSE hostname

\* main.go:55-57: hostname[0:6] + hostname[len(hostname)-1:]
TruncateHostname(hostname) ==
    IF Len(hostname) > LabelMax
    THEN SubSeq(hostname, 1, LabelHead) \o SubSeq(hostname, Len(hostname), Len(hostname))
    ELSE hostname

\* setInputDefault on the flag named "input": os.Hostname() fails, or the
\* (possibly shortened) hostname becomes the default of the flag.
SetInputDefault ==
    /\ cli /= None /\ cli.pc = "build"
    /\ \E ok \in BOOLEAN :
         IF ok
         THEN cli' = [cli EXCEPT !.pc = "parse", !.HasDefault = TRUE,
                                 !.Default = TruncateHostname(cli.hostname)]
         ELSE cli' = [cli EXCEPT !.pc = "failed"]
    /\ UNCHANGED <<clientVars, ourInput>>
    /\ UNCHANGED <<xVars, watchVars, recVars, toggleVars, tvVars, runRet>>

\* kong parses the command line: the given value, else the default.
ParseInput ==
    /\ cli /= None /\ cli.pc = "parse"
    /\ cli' = [cli EXCEPT !.pc = "parsed",
                          !.Input = IF cli.flag.given THEN cli.flag.val
                                    ELSE cli.Default]
    /\ UNCHANGED <<clientVars, ourInput>>
    /\ UNCHANGED <<xVars, watchVars, recVars, toggleVars, tvVars, runRet>>

InitInputDefault ==
    /\ NoWatcher
    /\ cop = None
    /\ creq = None
    /\ cresp = None
    /\ cout = None
    /\ \E h \in Hostnames, f \in InputFlags :
         cli = [kind |-> "input", pc |-> "build", hostname |-> h, flag |-> f,
                HasDefault |-> FALSE, Default |-> <<>>, Input |-> <<>>]

NextInputDefault ==
    \/ SetInputDefault
    \/ ParseInput

SpecInputDefault == InitInputDefault /\ [][NextInputDefault]_vars

\* ------------------------------------------------------ input default, C28
\* C28: the default label is the hostname itself when that has at most 7
\* characters, else its first 6 characters followed by its last one
\* (palantir gives palantr), so it never has more than 7; a value given with
\* --input is used as it is, however long.
C28_DefaultLabel ==
    (cli /= None /\ cli.HasDefault) =>
        LET h == cli.hostname
            n == Len(h)
        IN /\ n <= 7 => cli.Default = h
           /\ n > 7 => /\ Len(cli.Default) = 7
                       /\ \A i \in 1..6 : cli.Default[i] = h[i]
                       /\ cli.Default[7] = h[n]
           /\ Len(cli.Default) <= 7
           /\ h = Palantir => cli.Default = Palantr
           /\ cli.pc = "parsed" =>
                 cli.Input = IF cli.flag.given THEN cli.flag.val ELSE cli.Default

\* A hostname of eight bytes whose seventh and last differ, and --input
\* given with a value longer than a label.
C28_Witness ==
    /\ cli /= None /\ cli.pc = "parsed"
    /\ cli.hostname = Palantir /\ cli.Default = Palantr
    /\ cli.flag = Flag(LongLabel) /\ cli.Input = LongLabel

\* ------------------------------------------------- ssChange and the TV, C30
\* C30: with the TV changing state on its own between the protocol calls of
\* ssChange, the TV is never turned off while it shows a foreign input: in
\* the step in which a SetPowerStatus(false) of ssChange puts the TV in
\* standby, the TV's selected input is the target input.
C30_NeverOffOnForeignInput ==
    [][(/\ rpc = "SetPowerOff" /\ rpc' = "idle"
        /\ tvPower = "active" /\ tvPower' = "standby")
           => tvInput = ourInput]_vars

\* ------------------------------------------- what causes an invocation, C31
\* C31: handler invocations are caused only by events. Before Watch has read
\* its first notification it has invoked the handler zero times, whatever the
\* cached flags are; every invocation belongs to a notification Watch has
\* read, and no notification has more than one invocation.
C31_InvocationsOnlyByEvents ==
    /\ disp = 0 => (inv = <<>> /\ pc /= "handler")
    /\ \A i \in DOMAIN inv : inv[i].ev \in 1..disp
    /\ \A i, j \in DOMAIN inv : inv[i].ev = inv[j].ev => i = j
    /\ Len(inv) <= disp

\* The monitor was present with the screen saver off when Watch started, the
\* first notification read was an unrelated one, and the handler has not run.
C31_Witness ==
    /\ disp = 1
    /\ last.kind = "other"
    /\ last.wasPresent /\ ~last.wasOn
    /\ present /\ ~ssOn
    /\ inv = <<>>
    /\ pc = "wait"

\* ------------------------------------------------------- NewScreen, C32
ErrScreenSaver == "could not query screen saver state"

\* NewScreen has allocated the Screen: both cached flags hold their zero
\* value, the X server is in one of the topologies Watch will see.
InitNewScreen ==
    /\ InitPresence
    /\ ~ssOn
    /\ outputs \in Topologies

\* NewScreen from the allocation on: the screen-saver state st is queried
\* and its decoding stored, then the presence; either query may fail, which
\* ends the command. last keeps the state the X server answered with.
NewScreen ==
    /\ pc = "new"
    /\ \E st \in SSStates, qfail \in XRequestFails, xfail \in XRequestFails :
         LET q == queryPresence(outputs, xfail)
         IN /\ last' = [id |-> 0, kind |-> "new", state |-> st,
                        val |-> q.present, wasOn |-> ssOn,
                        wasPresent |-> present,
                        fail |-> IF qfail THEN ErrScreenSaver ELSE q.err]
            /\ IF qfail
               THEN /\ pc' = "exit"
                    /\ runRet' = ErrScreenSaver
                    /\ UNCHANGED <<ssOn, present>>
               ELSE /\ ssOn' = queryScreenSaver(st)
                    /\ IF q.err = Nil
                       THEN /\ present' = q.present
                            /\ pc' = "wait"
                            /\ runRet' = runRet
                       ELSE /\ present' = present
                            /\ pc' = "exit"
                            /\ runRet' = ErrPresence
    /\ UNCHANGED <<ret, disp, inv, cfgVars>>
    /\ UNCHANGED <<xVars, recVars, tvVars, toggleVars>>

\* The command from NewScreen on: the Screen is built and then watched.
NextNewScreen ==
    \/ NewScreen
    \/ Next

SpecNewScreen == InitNewScreen /\ [][NextNewScreen]_vars

\* C32: the screen-saver flag NewScreen stores for the queried state is the
\* flag Watch stores for a notification carrying the same state, for each of
\* the states off, on, cycle and disabled.
C32_InitialValueAsDecoded ==
    (last.kind = "new" /\ last.fail = Nil) =>
        ssOn = SwapSS(IsOn(last.state), last.wasOn, present)

\* ------------------------------------------- toggle beside the watcher, C33
\* The run command watches while a toggle command is executed on the same
\* display; there is no other X event and nobody else changes the TV.
NextToggleWatch ==
    \/ ToggleStart
    \/ ToggleGetInputURI
    \/ TogglePowerStatus
    \/ ToggleSelectedInput
    \/ ToggleBlank
    \/ ToggleSetInput
    \/ ToggleSetPowerOn
    \/ WatchScreenSaver
    \/ PowerStatus
    \/ SelectedInput
    \/ SetPowerOff
    \/ RunReturn

\* Both commands are running processes and every protocol call returns
\* within the HTTP client's timeout.
SpecToggleWatch ==
    /\ Init
    /\ [][NextToggleWatch]_vars
    /\ WF_vars(WatchScreenSaver)
    /\ WF_vars(PowerStatus \/ SelectedInput \/ SetPowerOff)

\* Blank has just returned to a toggle that found the TV active on the
\* target input, with the watcher waiting, the monitor present and the
\* cached screen-saver flag off.
ToggleBlanked ==
    /\ tcalls /= <<>>
    /\ tcalls[Len(tcalls)] = TCall("Blank", "", "", Nil)
    /\ pc = "wait" /\ disp = 0
    /\ present /\ ~ssOn

\* A protocol call of the Reconciler returned an error.
ProtocolError == \E i \in DOMAIN errs : errs[i] /= Nil

\* C33: toggle delegates the power-off to the watcher. When Blank returns
\* while the watcher runs with the monitor present and the screen saver off,
\* the TV being active on the target input, then, with no other event, no
\* other change of the TV and no protocol error, the watcher reads a
\* screen-saver-on notification, invokes the Reconciler with screenSaverOn
\* true and the TV reaches standby.
C33_ToggleDelegatesPowerOff ==
    ToggleBlanked ~>
        \/ ProtocolError
        \/ /\ last.kind = "ss" /\ last.val
           /\ Len(inv) = 1 /\ inv[1].ev = last.id /\ inv[1].arg
           /\ inv[1].res = Nil
           /\ tvPower = "standby"

\* The toggle blanked the screen and the watcher turned the TV off.
C33_Witness ==
    /\ tret = Nil
    /\ tcalls[Len(tcalls)] = TCall("Blank", "", "", Nil)
    /\ last.kind = "ss" /\ last.val /\ ~last.wasOn /\ last.wasPresent
    /\ inv = <<[ev |-> 1, arg |-> TRUE, res |-> Nil, present |-> TRUE]>>
    /\ calls = <<CallPowerStatus, CallSelectedInput, CallSetPowerStatus(FALSE)>>
    /\ ~ProtocolError
    /\ tvPower = "standby"

\* --------------------------------------------------- failing event, C34
\* C34: when the presence query of a topology-change notification fails, or
\* the event read itself fails, Watch returns a non-nil error, the handler
\* is not invoked for that event, and both cached flags are as they were
\* before the event.
C34_FailedEventIsFatal ==
    (last.kind \in {"randr", "err"} /\ last.fail /= Nil) =>
        /\ pc \in {"done", "exit"}
        /\ ret = last.fail /\ ret \in {ErrPresence, ErrWait}
        /\ InvocationsOfLast = {}
        /\ ssOn = last.wasOn
        /\ present = last.wasPresent

\* The EDID of the only output no longer parses while the monitor is cached
\* as present and the screen saver as on: Watch has returned the query's
\* error after an earlier event and the flags are what they were.
C34_Witness ==
    /\ last.kind = "randr" /\ last.fail = ErrPresence
    /\ last.id = 2
    /\ outputs = <<EdidBad>>
    /\ last.wasPresent /\ present
    /\ last.wasOn /\ ssOn
    /\ pc = "done" /\ ret = ErrPresence

\* ------------------------------------------------------ convergence, C35
\* C35: a Reconciler run that returns success, with nobody else changing
\* the TV, leaves the TV converged. After a run with screenSaverOn false
\* the TV is active, and shows the target input if the run found it in
\* standby; after a run with screenSaverOn true the TV is in standby unless
\* it is active on an input other than the target.
C35_SuccessfulRunConverges ==
    (inv /= <<>> /\ rpc = "idle" /\ inv[Len(inv)].res = Nil) =>
        IF harg
        THEN tvPower = "standby" \/ (tvPower = "active" /\ tvInput /= ourInput)
        ELSE /\ tvPower = "active"
             /\ status = "standby" => tvInput = ourInput

\* A cold start: the TV was found in standby, was turned on and switched
\* to the target input.
C35_Witness ==
    /\ Len(inv) = 1 /\ rpc = "idle" /\ inv[1].res = Nil
    /\ ~harg /\ status = "standby" /\ input /= ourInput
    /\ calls = <<CallPowerStatus, CallSetPowerStatus(TRUE), CallSelectedInput,
                 CallSetInput(ourInput)>>
    /\ tvPower = "active" /\ tvInput = ourInput

\* ------------------------------------------------------- RunCmd.Run, C36
ErrGetInputURI == "could not get input URI"
ErrNilDeref == "runtime error: invalid memory address or nil pointer dereference"

\* The input list the TV reports, with the labels its inputs carry now.
TVInputList ==
    <<[uri |-> "extInput:hdmi?port=1", label |-> tvLabels["extInput:hdmi?port=1"]],
      [uri |-> "extInput:hdmi?port=2", label |-> tvLabels["extInput:hdmi?port=2"]]>>

\* RunCmd.Run is entered: the Screen is built, the monitor is plugged in,
\* the TV's inputs carry any labels and --input holds a URI or a label.
InitRun ==
    /\ outputs = <<EdidTarget>>
    /\ present = RangeEDID(outputs).present
    /\ \E st \in SSStates : ssOn = queryScreenSaver(st)
    /\ evq = <<>>
    /\ produced = 0
    /\ closed = FALSE
    /\ pc = "start"
    /\ ret = "none"
    /\ runRet = "none"
    /\ disp = 0
    /\ last = NoLast
    /\ inv = <<>>
    /\ ourInput = ""
    /\ rpc = "idle"
    /\ harg = FALSE
    /\ status = ""
    /\ input = ""
    /\ calls = <<>>
    /\ errs = <<>>
    /\ prev = <<>>
    /\ tvPower \in PowerStates
    /\ tvInput \in InputURIs
    /\ tvLabels \in [InputURIs -> Labels]
    /\ tpc = "idle"
    /\ tcalls = <<>>
    /\ tret = "none"
    /\ cop = None
    /\ creq = None
    /\ cresp = None
    /\ cout = None
    /\ \E a \in InputArgs :
         cli = [kind |-> "run", input |-> a, uri |-> "", err |-> Nil]

\* Mutant: the watch loop is started whatever getInputURI returned.
RunAfterGetInputURIAlwaysWatch(err) == "wait"

\* cmds.go:102-111 - an error of getInputURI ends Run, otherwise Watch runs.
RunAfterGetInputURI(err) == IF err = Nil THEN "wait" ELSE "exit"

\* ourInput, err := getInputURI(c, cmd.Input) in RunCmd.Run: a URI is taken
\* as it is, a label is looked up in the list c.Inputs() fetches now. An
\* error ends Run, wrapped; a panic of c.Inputs() ends it too, the deferred
\* recover returns the run-time error. The deferred Close runs.
RunGetInputURI ==
    /\ pc = "start"
    /\ \E how \in {"ok", "err", "panic"} :
         LET a == cli.input
             byURI == HasExtInputPrefix(a)
             labels == InputsMap(TVInputList, EmptyMap)
             err == IF byURI THEN Nil
                    ELSE IF how = "err" THEN ErrGetInputs
                    ELSE IF how = "panic" THEN ErrNilDeref
                    ELSE IF a \in DOMAIN labels THEN Nil ELSE ErrNoLabel
             uri == IF byURI THEN a
                    ELSE IF err = Nil THEN labels[a] ELSE ""
         IN /\ cli' = [cli EXCEPT !.uri = uri, !.err = err]
            /\ ourInput' = uri
            /\ pc' = RunAfterGetInputURI(err)
            /\ IF err = Nil
               THEN UNCHANGED <<runRet, closed>>
               ELSE /\ runRet' = IF err = ErrNilDeref THEN err
                                  ELSE ErrGetInputURI
                    /\ closed' = TRUE
    /\ UNCHANGED <<ssOn, present, ret, disp, last, inv, clientVars>>
    /\ UNCHANGED <<outputs, evq, produced, recVars, tvVars, toggleVars>>

\* Somebody gives an input of the TV another label while Run is watching.
TVRelabel ==
    /\ pc \in {"wait", "handler"}
    /\ \E u \in InputURIs, l \in Labels :
         /\ l /= tvLabels[u]
         /\ tvLabels' = [tvLabels EXCEPT ![u] = l]
    /\ UNCHANGED <<xVars, runRet, cfgVars, tvPower, tvInput>>
    /\ UNCHANGED <<watchVars, recVars, toggleVars>>

\* The run command from its entry on, with screen-saver notifications only.
NextRun ==
    \/ RunGetInputURI
    \/ TVRelabel
    \/ XScreenSaverNotify
    \/ WatchScreenSaver
    \/ PowerStatus
    \/ SetPowerOn
    \/ SelectedInput
    \/ SetInput
    \/ SetPowerOff
    \/ RunReturn

SpecRun == InitRun /\ [][NextRun]_vars

\* C36: the run command resolves the target input once, before the watch
\* loop starts. If the resolution fails, Run returns its error with no
\* event read and no handler invocation; otherwise the target stays the URI
\* resolved then, every SetInput of the Reconciler carries it and the
\* Reconciler never calls Inputs, whatever labels the TV's inputs get later.
C36_TargetResolvedOnce ==
    /\ pc = "start" => (inv = <<>> /\ disp = 0)
    /\ cli.err /= Nil =>
          /\ pc = "exit" /\ ret = "none"
          /\ runRet \in {ErrGetInputURI, ErrNilDeref}
          /\ inv = <<>> /\ disp = 0 /\ calls = <<>>
    /\ (pc /= "start" /\ cli.err = Nil) => ourInput = cli.uri
    /\ \A l \in {calls, prev} : \A i \in DOMAIN l :
          /\ l[i].op /= "Inputs"
          /\ l[i].op = "SetInput" => l[i].arg = cli.uri

\* The target was resolved from a label, the input has lost that label
\* since, and the Reconciler has selected the input resolved at the start.
C36_Witness ==
    /\ ~HasExtInputPrefix(cli.input) /\ cli.err = Nil
    /\ cli.input \notin DOMAIN InputsMap(TVInputList, EmptyMap)
    /\ Len(inv) = 1 /\ inv[1].res = Nil
    /\ calls = <<CallPowerStatus, CallSetPowerStatus(TRUE), CallSelectedInput,
                 CallSetInput(cli.uri)>>
    /\ tvInput = cli.uri /\ ourInput = cli.uri

====
